---- MODULE Spec2Model ----
(***************************************************************************)
(* Resumify: the reliability layer (CircuitBreaker, with_retry) and the    *)
(* asynchronous document-processing pipeline (upload, workers, Textract    *)
(* completion notifications, NLP structuring), as state machines.          *)
(*                                                                         *)
(*   BreakerSpec : shared/reliability_utils.py  CircuitBreaker             *)
(*   RetrySpec   : shared/error_handler.py      with_retry                 *)
(*   Spec        : upload_handler, docx_txt_worker, textract_result_handler*)
(*                 and nlp_handler acting on the two DynamoDB tables       *)
(***************************************************************************)
EXTENDS Integers, Sequences, FiniteSets, TLC

(* ------------------------------ bounds --------------------------------- *)
\* last value of the wall clock read by time.time() in the breaker model
MaxTime == 4
\* number of threads calling the same breaker concurrently
NumThreads == 2
\* largest configured failure_threshold / success_threshold / recovery_timeout
MaxFailureThreshold == 2
MaxSuccessThreshold == 2
MaxRecoveryTimeout == 1
\* largest max_retries and timeout_seconds given to with_retry
MaxRetries == 3
MaxTimeoutSeconds == 2
\* longest run of one invocation of the wrapped function, in seconds
MaxFnDuration == 1
\* number of candidate ids (uploads) in the pipeline model
NumCandidates == 1
\* how many times in all a message may be delivered again after a delivery
MaxRedeliveries == 1
\* text_extraction_errors: an error message has at most this many words
MaxWords == 2
\* matches_handler: the jobs table holds at most this many postings
MaxJobs == 3
\* matches_handler: at most this many requests are handled
MaxRequests == 2
\* nlp_handler: a resume text states at most this many years of experience
MaxYears == 5

(* ============================ CircuitBreaker =========================== *)
VARIABLES
    state,              \* CircuitBreakerState.state
    failure_count,      \* CircuitBreakerState.failure_count
    success_count,      \* CircuitBreakerState.success_count
    last_failure_time,  \* CircuitBreakerState.last_failure_time
    last_success_time,  \* CircuitBreakerState.last_success_time
    failure_threshold,  \* CircuitBreakerConfig.failure_threshold
    recovery_timeout,   \* CircuitBreakerConfig.recovery_timeout
    success_threshold,  \* CircuitBreakerConfig.success_threshold
    now,                \* the value time.time() returns
    pc,                 \* per thread: where it is inside call()
    outcome,            \* per thread: how its latest call() ended
    recorded,           \* per thread: _record_* executions of its latest call()
    failsSinceSuccess,  \* history: failures recorded since the last recorded success
    halfOpenSuccesses,  \* history: successes recorded since HALF_OPEN was entered
    admittedIn          \* history: per thread, the state its call in flight was admitted in

breakerVars == <<state, failure_count, success_count, last_failure_time,
                 last_success_time, failure_threshold, recovery_timeout,
                 success_threshold, now, pc, outcome, recorded,
                 failsSinceSuccess, halfOpenSuccesses, admittedIn>>

(* ------------------------- with_retry: variables ----------------------- *)
VARIABLES
    max_retries,      \* with_retry argument
    backoff_factor,   \* with_retry argument
    timeout_seconds,  \* with_retry argument; 0 stands for None
    fn_failures,      \* the wrapped function raises on its first fn_failures invocations
    rtime,            \* the value time.time() returns
    start_time,       \* wrapper local
    attempt,          \* wrapper loop variable
    last_exception,   \* wrapper local
    exc,              \* the exception in flight inside the try block
    rpc,              \* where the wrapper is
    raised,           \* what the wrapper ended with: a return or the error raised
    ncalls,           \* invocations of the wrapped function so far
    nsleeps,          \* time.sleep calls so far
    fnRaised          \* history: the kinds the wrapped function has raised

retryVars == <<max_retries, backoff_factor, timeout_seconds, fn_failures,
               rtime, start_time, attempt, last_exception, exc, rpc, raised,
               ncalls, nsleeps, fnRaised>>

(* -------------------------- pipeline: variables ------------------------ *)
VARIABLES
    candidates,     \* CANDIDATES_TABLE: candidateId -> item
    analyses,       \* ANALYSES_TABLE: candidateId -> the items of that candidate
    jobs,           \* Textract: per job (one per candidate) its JobStatus
    jobText,        \* Textract: what the LINE blocks of the job join to
    jobNotifies,    \* Textract: whether the job was given a NotificationChannel
    uploadPc,       \* upload_handler: how far the upload of this id has come
    pendingDocx,    \* asynchronous invocations of the DOCX worker not yet delivered
    pendingNotif,   \* SNS completion notifications not yet delivered
    pendingNlp,     \* asynchronous invocations of the NLP handler not yet delivered
    deliveries,     \* history: deliveries of the job's SUCCEEDED notification
    redeliveries,   \* history: repeated deliveries so far
    docxConfigured, \* os.environ.get('DOCX_WORKER_FUNCTION') is set
    nlpConfigured,  \* os.environ.get('NLP_PROCESSOR_FUNCTION') is set
    lastEvent,      \* history: the handler that ran last, for whom, how it went
    lastRecord      \* history: the record an NLP run that went ok wrote, else 0

pipeVars == <<candidates, analyses, jobs, jobText, jobNotifies, uploadPc,
              pendingDocx, pendingNotif, pendingNlp, deliveries, redeliveries,
              docxConfigured, nlpConfigured, lastEvent, lastRecord>>

(* ------------------- text_extraction_errors: variables ----------------- *)
VARIABLES
    error_message,  \* the raw message (also the job's StatusMessage): its words
    job_status,     \* JobStatus of the textract_response
    classified,     \* what classify_error returned, "none" before the call
    error,          \* the TextExtractionError built, NoExtractionError before
    api_error,      \* what format_error_for_api returned, NoApiError before
    cpc             \* "parked", "input", or the function that has run

classVars == <<error_message, job_status, classified, error, api_error, cpc>>

(* ----------------------- matches_handler: variables -------------------- *)
VARIABLES
    analysesTable,  \* the Items of the candidate's query on the analyses table
    jobsTable,      \* the jobs table in scan order; a job's id is its position
    matchesTable,   \* the items create_match has put into the matches table
    response,       \* what the last get_matches?candidateId returned
    evaluated,      \* history: per job id, the calls of calculate_match_score
    utcnow          \* datetime.utcnow(), one tick per request

matchVars == <<analysesTable, jobsTable, matchesTable, response, evaluated, utcnow>>

(* ------------------ nlp_handler, structured data: variables ------------ *)
VARIABLES
    file_type,       \* fileType of the candidate item
    text_content,    \* the resume text, as what the extract_* functions find
    extracted_data,  \* what extract_structured_data returned, NoData before
    spc              \* "parked", "input" or "extracted"

structVars == <<file_type, text_content, extracted_data, spc>>

(* ----------------- upload_handler, validation: variables --------------- *)
VARIABLES
    request,          \* the fileType and the decoded size of the upload
    upload_response,  \* statusCode of the response, 0 before the request
    s3_objects,       \* the number of objects put into the resumes bucket
    candidate_items,  \* the number of items put into the candidates table
    processing        \* TRUE once extraction has been started

uploadVars ==
    <<request, upload_response, s3_objects, candidate_items, processing>>

vars ==
    <<breakerVars, retryVars, pipeVars, classVars, matchVars, structVars,
      uploadVars>>

\* what each component's steps leave alone
notBreaker ==
    <<retryVars, pipeVars, classVars, matchVars, structVars,
      uploadVars>>
notRetry ==
    <<breakerVars, pipeVars, classVars, matchVars, structVars,
      uploadVars>>
notPipeline ==
    <<breakerVars, retryVars, classVars, matchVars, structVars,
      uploadVars>>
notClassifier ==
    <<breakerVars, retryVars, pipeVars, matchVars, structVars,
      uploadVars>>
notMatches ==
    <<breakerVars, retryVars, pipeVars, classVars, structVars,
      uploadVars>>
notStructuring ==
    <<breakerVars, retryVars, pipeVars, classVars, matchVars,
      uploadVars>>
notUpload ==
    <<breakerVars, retryVars, pipeVars, classVars, matchVars, structVars>>

CLOSED == "closed"
OPEN == "open"
HALF_OPEN == "half_open"
CircuitState == {CLOSED, OPEN, HALF_OPEN}

Threads == 1..NumThreads

\* a breaker nobody calls; the values the other specifications hold these
\* variables at
BreakerParked ==
    /\ state = CLOSED
    /\ failure_count = 0
    /\ success_count = 0
    /\ last_failure_time = 0
    /\ last_success_time = 0
    /\ failure_threshold = 1
    /\ recovery_timeout = 1
    /\ success_threshold = 1
    /\ now = 1
    /\ pc = [t \in Threads |-> "idle"]
    /\ outcome = [t \in Threads |-> "none"]
    /\ recorded = [t \in Threads |-> 0]
    /\ failsSinceSuccess = 0
    /\ halfOpenSuccesses = 0
    /\ admittedIn = [t \in Threads |-> "none"]

\* CircuitBreakerState() defaults and a CircuitBreakerConfig with positive settings
BreakerInit ==
    /\ state = CLOSED
    /\ failure_count = 0
    /\ success_count = 0
    /\ last_failure_time = 0
    /\ last_success_time = 0
    /\ failure_threshold \in 1..MaxFailureThreshold
    /\ recovery_timeout \in 1..MaxRecoveryTimeout
    /\ success_threshold \in 1..MaxSuccessThreshold
    /\ now = 1
    /\ pc = [t \in Threads |-> "idle"]
    /\ outcome = [t \in Threads |-> "none"]
    /\ recorded = [t \in Threads |-> 0]
    /\ failsSinceSuccess = 0
    /\ halfOpenSuccesses = 0
    /\ admittedIn = [t \in Threads |-> "none"]

\* the recovery test of call(): has the timeout passed since the last failure
RecoveryElapsed(current_time) ==
    current_time - last_failure_time > recovery_timeout

\* state after the OPEN -> HALF_OPEN check at the top of call()
StateAfterCheckAlwaysProbe == IF state = OPEN THEN HALF_OPEN ELSE state

StateAfterCheck ==
    IF state = OPEN /\ RecoveryElapsed(now) THEN HALF_OPEN ELSE state

\* call(), first critical section: transition check, then reject or admit
CallEnter(t) ==
    /\ pc[t] = "idle"
    /\ state' = StateAfterCheck
    /\ success_count' = IF state = OPEN /\ StateAfterCheck = HALF_OPEN
                        THEN 0 ELSE success_count
    /\ halfOpenSuccesses' = IF state = OPEN /\ StateAfterCheck = HALF_OPEN
                            THEN 0 ELSE halfOpenSuccesses
    /\ recorded' = [recorded EXCEPT ![t] = 0]
    /\ IF StateAfterCheck = OPEN
       THEN /\ outcome' = [outcome EXCEPT ![t] = "CircuitBreakerOpenError"]
            /\ pc' = pc
       ELSE /\ outcome' = [outcome EXCEPT ![t] = "pending"]
            /\ pc' = [pc EXCEPT ![t] = "executing"]
    /\ admittedIn' = IF StateAfterCheck = OPEN THEN admittedIn
                     ELSE [admittedIn EXCEPT ![t] = StateAfterCheck]
    /\ UNCHANGED <<failure_count, last_failure_time, last_success_time,
                   failure_threshold, recovery_timeout, success_threshold,
                   now, failsSinceSuccess>>
    /\ UNCHANGED notBreaker

\* func(*args, **kwargs) returns, outside the lock
FuncReturns(t) ==
    /\ pc[t] = "executing"
    /\ pc' = [pc EXCEPT ![t] = "returned"]
    /\ UNCHANGED <<state, failure_count, success_count, last_failure_time,
                   last_success_time, failure_threshold, recovery_timeout,
                   success_threshold, now, outcome, recorded,
                   failsSinceSuccess, halfOpenSuccesses, admittedIn>>
    /\ UNCHANGED notBreaker

\* func(*args, **kwargs) raises, outside the lock
FuncRaises(t) ==
    /\ pc[t] = "executing"
    /\ pc' = [pc EXCEPT ![t] = "raised"]
    /\ UNCHANGED <<state, failure_count, success_count, last_failure_time,
                   last_success_time, failure_threshold, recovery_timeout,
                   success_threshold, now, outcome, recorded,
                   failsSinceSuccess, halfOpenSuccesses, admittedIn>>
    /\ UNCHANGED notBreaker

\* does this recorded success close a HALF_OPEN breaker
ClosesOnSuccessEarly == state = HALF_OPEN

ClosesOnSuccess ==
    state = HALF_OPEN /\ success_count + 1 >= success_threshold

\* state after a recorded success
StateAfterSuccessUnguarded ==
    IF success_count + 1 >= success_threshold THEN CLOSED ELSE state

StateAfterSuccess == IF ClosesOnSuccess THEN CLOSED ELSE state

\* failure_count after a recorded success
FailureCountAfterSuccessNoReset == failure_count

FailureCountAfterSuccess ==
    IF ClosesOnSuccess \/ state = CLOSED THEN 0 ELSE failure_count

\* _record_success, under the lock
RecordSuccess(t) ==
    /\ pc[t] = "returned"
    /\ last_success_time' = now
    /\ success_count' = IF state = HALF_OPEN THEN success_count + 1
                        ELSE success_count
    /\ state' = StateAfterSuccess
    /\ failure_count' = FailureCountAfterSuccess
    /\ pc' = [pc EXCEPT ![t] = "idle"]
    /\ outcome' = [outcome EXCEPT ![t] = "result"]
    /\ recorded' = [recorded EXCEPT ![t] = @ + 1]
    /\ failsSinceSuccess' = 0
    /\ halfOpenSuccesses' = IF state = HALF_OPEN THEN halfOpenSuccesses + 1
                            ELSE halfOpenSuccesses
    /\ admittedIn' = [admittedIn EXCEPT ![t] = "none"]
    /\ UNCHANGED <<last_failure_time, failure_threshold, recovery_timeout,
                   success_threshold, now>>
    /\ UNCHANGED notBreaker

\* state after a recorded failure, given the incremented failure_count
StateAfterFailureStayHalfOpen(count) ==
    IF state = CLOSED /\ count >= failure_threshold THEN OPEN ELSE state

StateAfterFailureLate(count) ==
    IF state = CLOSED /\ count > failure_threshold THEN OPEN
    ELSE IF state = HALF_OPEN THEN OPEN
    ELSE state

StateAfterFailure(count) ==
    IF state = CLOSED /\ count >= failure_threshold THEN OPEN
    ELSE IF state = HALF_OPEN THEN OPEN
    ELSE state

\* _record_failure, under the lock; call() then re-raises
RecordFailure(t) ==
    /\ pc[t] = "raised"
    /\ last_failure_time' = now
    /\ failure_count' = failure_count + 1
    /\ state' = StateAfterFailure(failure_count + 1)
    /\ pc' = [pc EXCEPT ![t] = "idle"]
    /\ outcome' = [outcome EXCEPT ![t] = "exception"]
    /\ recorded' = [recorded EXCEPT ![t] = @ + 1]
    /\ failsSinceSuccess' = failsSinceSuccess + 1
    /\ admittedIn' = [admittedIn EXCEPT ![t] = "none"]
    /\ UNCHANGED <<success_count, last_success_time, failure_threshold,
                   recovery_timeout, success_threshold, now,
                   halfOpenSuccesses>>
    /\ UNCHANGED notBreaker

\* the wall clock advances
Tick ==
    /\ now < MaxTime
    /\ now' = now + 1
    /\ UNCHANGED <<state, failure_count, success_count, last_failure_time,
                   last_success_time, failure_threshold, recovery_timeout,
                   success_threshold, pc, outcome, recorded,
                   failsSinceSuccess, halfOpenSuccesses, admittedIn>>
    /\ UNCHANGED notBreaker

BreakerNext ==
    \/ \E t \in Threads : CallEnter(t)
    \/ \E t \in Threads : FuncReturns(t)
    \/ \E t \in Threads : FuncRaises(t)
    \/ \E t \in Threads : RecordSuccess(t)
    \/ \E t \in Threads : RecordFailure(t)
    \/ Tick


(* ============================== with_retry ============================= *)
\* the default retryable_exceptions tuple
RetryableExceptions == {"RetryableError", "ClientError", "BotoCoreError"}

\* what the wrapped function can raise
ExceptionKinds == RetryableExceptions \cup {"ValueError"}

NoError == [type |-> "None", status_code |-> 0, retry_after |-> 0]

IsRetryableAnyException(kind) == TRUE

\* except retryable_exceptions as e
IsRetryable(kind) == kind \in RetryableExceptions

\* TimeoutError.__init__: APIError with status_code 408, retry_after 30
TimeoutErrorRaised ==
    [type |-> "TimeoutError", status_code |-> 408, retry_after |-> 30]

\* APIError raised once retries are exhausted on a RetryableError
ExhaustedAPIError ==
    [type |-> "APIError", status_code |-> 503, retry_after |-> 0]

\* an exception of the wrapped function propagating unchanged
\* (RetryableError defaults: status_code 500, retry_after 5)
Propagated(kind) ==
    IF kind = "RetryableError"
    THEN [type |-> kind, status_code |-> 500, retry_after |-> 5]
    ELSE [type |-> kind, status_code |-> 0, retry_after |-> 0]

Returned == [type |-> "return", status_code |-> 0, retry_after |-> 0]

RECURSIVE Pow2(_)
Pow2(n) == IF n = 0 THEN 1 ELSE 2 * Pow2(n - 1)

\* a with_retry call that has not started; the values the other
\* specifications hold these variables at
RetryParked ==
    /\ max_retries = 0
    /\ backoff_factor = 0
    /\ timeout_seconds = 0
    /\ fn_failures = 0
    /\ rtime = 0
    /\ start_time = 0
    /\ attempt = 0
    /\ last_exception = "None"
    /\ exc = "None"
    /\ rpc = "parked"
    /\ raised = NoError
    /\ ncalls = 0
    /\ nsleeps = 0
    /\ fnRaised = {}

\* wrapper entered: start_time = time.time(), last_exception = None, attempt 0
RetryInit ==
    /\ max_retries \in 0..MaxRetries
    /\ backoff_factor \in {0, 1}
    /\ timeout_seconds \in 0..MaxTimeoutSeconds
    /\ fn_failures \in 0..(MaxRetries + 2)
    /\ rtime = 0
    /\ start_time = 0
    /\ attempt = 0
    /\ last_exception = "None"
    /\ exc = "None"
    /\ rpc = "attempt"
    /\ raised = NoError
    /\ ncalls = 0
    /\ nsleeps = 0
    /\ fnRaised = {}

BudgetExceededLate ==
    timeout_seconds # 0 /\ rtime - start_time > timeout_seconds + 1

\* if timeout_seconds and (time.time() - start_time) > timeout_seconds
BudgetExceeded ==
    timeout_seconds # 0 /\ rtime - start_time > timeout_seconds

\* the timeout check at the top of the try block raises TimeoutError
CheckTimeoutRaises ==
    /\ rpc = "attempt"
    /\ BudgetExceeded
    /\ exc' = "TimeoutError"
    /\ rpc' = "except"
    /\ UNCHANGED <<max_retries, backoff_factor, timeout_seconds, fn_failures,
                   rtime, start_time, attempt, last_exception, raised,
                   ncalls, nsleeps, fnRaised>>
    /\ UNCHANGED notRetry

\* result = func(*args, **kwargs); return result
InvokeFnReturns ==
    /\ rpc = "attempt"
    /\ ~BudgetExceeded
    /\ ncalls + 1 > fn_failures
    /\ \E d \in 0..MaxFnDuration : rtime' = rtime + d
    /\ ncalls' = ncalls + 1
    /\ raised' = Returned
    /\ rpc' = "done"
    /\ UNCHANGED <<max_retries, backoff_factor, timeout_seconds, fn_failures,
                   start_time, attempt, last_exception, exc, nsleeps,
                   fnRaised>>
    /\ UNCHANGED notRetry

\* func(*args, **kwargs) raises
InvokeFnRaises ==
    /\ rpc = "attempt"
    /\ ~BudgetExceeded
    /\ ncalls + 1 <= fn_failures
    /\ \E d \in 0..MaxFnDuration : rtime' = rtime + d
    /\ ncalls' = ncalls + 1
    /\ \E k \in ExceptionKinds :
          /\ exc' = k
          /\ fnRaised' = fnRaised \cup {k}
    /\ rpc' = "except"
    /\ UNCHANGED <<max_retries, backoff_factor, timeout_seconds, fn_failures,
                   start_time, attempt, last_exception, raised, nsleeps>>
    /\ UNCHANGED notRetry

\* if attempt == max_retries: break
LastAttemptEarly == attempt + 1 >= max_retries

LastAttemptLate == attempt = max_retries + 1

LastAttempt == attempt = max_retries

\* except retryable_exceptions as e: remember it, then break or back off
ExceptRetryable ==
    /\ rpc = "except"
    /\ IsRetryable(exc)
    /\ last_exception' = exc
    /\ exc' = "None"
    /\ rpc' = IF LastAttempt THEN "exhausted" ELSE "sleeping"
    /\ UNCHANGED <<max_retries, backoff_factor, timeout_seconds, fn_failures,
                   rtime, start_time, attempt, raised, ncalls, nsleeps,
                   fnRaised>>
    /\ UNCHANGED notRetry

\* except Exception as e: raise
ExceptOther ==
    /\ rpc = "except"
    /\ ~IsRetryable(exc)
    /\ raised' = IF exc = "TimeoutError" THEN TimeoutErrorRaised
                 ELSE Propagated(exc)
    /\ exc' = "None"
    /\ rpc' = "done"
    /\ UNCHANGED <<max_retries, backoff_factor, timeout_seconds, fn_failures,
                   rtime, start_time, attempt, last_exception, ncalls,
                   nsleeps, fnRaised>>
    /\ UNCHANGED notRetry

\* delay = backoff_factor * (2 ** attempt) + (time.time() % 1); the jitter
\* in [0, 1) shows on the whole-second clock as 0 or 1
Sleep ==
    /\ rpc = "sleeping"
    /\ \E jitter \in 0..1 :
          rtime' = rtime + backoff_factor * Pow2(attempt) + jitter
    /\ nsleeps' = nsleeps + 1
    /\ attempt' = attempt + 1
    /\ rpc' = "attempt"
    /\ UNCHANGED <<max_retries, backoff_factor, timeout_seconds, fn_failures,
                   start_time, last_exception, exc, raised, ncalls, fnRaised>>
    /\ UNCHANGED notRetry

\* after the loop: APIError(503) for a RetryableError, else raise last_exception
ErrorAfterExhaustion ==
    IF last_exception = "RetryableError" THEN ExhaustedAPIError
    ELSE Propagated(last_exception)

Exhausted ==
    /\ rpc = "exhausted"
    /\ raised' = ErrorAfterExhaustion
    /\ rpc' = "done"
    /\ UNCHANGED <<max_retries, backoff_factor, timeout_seconds, fn_failures,
                   rtime, start_time, attempt, last_exception, exc, ncalls,
                   nsleeps, fnRaised>>
    /\ UNCHANGED notRetry

RetryNext ==
    \/ CheckTimeoutRaises
    \/ InvokeFnReturns
    \/ InvokeFnRaises
    \/ ExceptRetryable
    \/ ExceptOther
    \/ Sleep
    \/ Exhausted


(* =============================== pipeline ============================== *)
Candidates == 1..NumCandidates

\* allowed_types of the upload handler
allowed_types == {"pdf", "docx", "doc", "txt"}

\* no item under this candidateId
NoCandidate ==
    [status |-> "absent", fileType |-> "none",
     textExtractionStatus |-> "none", textractJobId |-> 0]

\* candidate_record as put by the upload handler
NewCandidate(ft) ==
    [status |-> "uploaded", fileType |-> ft,
     textExtractionStatus |-> "pending", textractJobId |-> 0]

\* create_analysis_record: a new item under a fresh analysisId
NewAnalysis(text) ==
    [extractedText |-> text, textExtractionStatus |-> "completed",
     status |-> "processing", structured |-> FALSE]

\* create_basic_analysis_record: placeholder text and default profile fields
BasicAnalysis ==
    [extractedText |-> "placeholder", textExtractionStatus |-> "processing",
     status |-> "processing", structured |-> FALSE]

\* update_item SET #status = :status
WithStatus(item, st) == [item EXCEPT !.status = st]

\* update_item SET #status = :status, textExtractionStatus = :text_status
WithStatusAndText(item, st) ==
    [item EXCEPT !.status = st,
                 !.textExtractionStatus =
                     IF st = "analyzed" THEN "completed" ELSE "failed"]

TriggerNlpUnconditionally(c, sent) ==
    pendingNlp' = [pendingNlp EXCEPT ![c] = @ + 1]

\* lambda_client.invoke(InvocationType='Event') of the NLP handler
TriggerNlp(c, sent) ==
    pendingNlp' = [pendingNlp EXCEPT ![c] = IF sent THEN @ + 1 ELSE @]

\* a delivered message is gone, or stays to be delivered once more
Consume(pending, c, again) ==
    IF again THEN pending ELSE [pending EXCEPT ![c] = @ - 1]

Redeliver(again) ==
    /\ again => redeliveries < MaxRedeliveries
    /\ redeliveries' = IF again THEN redeliveries + 1 ELSE redeliveries

\* no handler has run yet
NoEvent == [handler |-> "none", candidate |-> 0, outcome |-> "none"]

\* history of a handler run: "ok", "rejected" (validation), "raised" (a
\* service call of the handler raised and the handler caught it),
\* "escaped" (the handler re-raised it to its invoker),
\* "extraction_failed" (the text could not be obtained) or
\* "structuring_failed"
Ran(h, c, o) ==
    /\ lastEvent' = [handler |-> h, candidate |-> c, outcome |-> o]
    /\ lastRecord' = 0

\* history of a run of the NLP handler that went "ok": also which of the
\* candidate's records was Items[0] of its query
RanOn(h, c, o, i) ==
    /\ lastEvent' = [handler |-> h, candidate |-> c, outcome |-> o]
    /\ lastRecord' = IF o = "ok" THEN i ELSE 0

\* empty tables, no job, nothing in flight; the values the other
\* specifications hold these variables at
PipeParked ==
    /\ candidates = [c \in Candidates |-> NoCandidate]
    /\ analyses = [c \in Candidates |-> <<>>]
    /\ jobs = [c \in Candidates |-> "none"]
    /\ jobText = [c \in Candidates |-> ""]
    /\ jobNotifies = [c \in Candidates |-> FALSE]
    /\ uploadPc = [c \in Candidates |-> "none"]
    /\ pendingDocx = [c \in Candidates |-> 0]
    /\ pendingNotif = [c \in Candidates |-> 0]
    /\ pendingNlp = [c \in Candidates |-> 0]
    /\ deliveries = [c \in Candidates |-> 0]
    /\ redeliveries = 0
    /\ docxConfigured = TRUE
    /\ nlpConfigured = TRUE
    /\ lastEvent = NoEvent
    /\ lastRecord = 0

\* empty tables, no job, nothing in flight
PipeInit ==
    /\ candidates = [c \in Candidates |-> NoCandidate]
    /\ analyses = [c \in Candidates |-> <<>>]
    /\ jobs = [c \in Candidates |-> "none"]
    /\ jobText = [c \in Candidates |-> ""]
    /\ jobNotifies = [c \in Candidates |-> FALSE]
    /\ uploadPc = [c \in Candidates |-> "none"]
    /\ pendingDocx = [c \in Candidates |-> 0]
    /\ pendingNotif = [c \in Candidates |-> 0]
    /\ pendingNlp = [c \in Candidates |-> 0]
    /\ deliveries = [c \in Candidates |-> 0]
    /\ redeliveries = 0
    /\ docxConfigured \in BOOLEAN
    /\ nlpConfigured \in BOOLEAN
    /\ lastEvent = NoEvent
    /\ lastRecord = 0

\* upload_handler: unsupported fileType or more than 10 MiB -> 400
UploadRejected(c) ==
    /\ uploadPc[c] = "none"
    /\ \E ft \in allowed_types \cup {"exe"}, oversize \in BOOLEAN :
          ft \notin allowed_types \/ oversize
    /\ Ran("upload", c, "rejected")
    /\ uploadPc' = [uploadPc EXCEPT ![c] = "400"]
    /\ UNCHANGED <<candidates, analyses, jobs, jobText, jobNotifies,
                   pendingDocx, pendingNotif, pendingNlp, deliveries,
                   redeliveries, docxConfigured, nlpConfigured>>
    /\ UNCHANGED notPipeline

\* upload_handler: put_object or the candidate put_item raises -> 500
UploadFails(c) ==
    /\ uploadPc[c] = "none"
    /\ Ran("upload", c, "raised")
    /\ uploadPc' = [uploadPc EXCEPT ![c] = "500"]
    /\ UNCHANGED <<candidates, analyses, jobs, jobText, jobNotifies,
                   pendingDocx, pendingNotif, pendingNlp, deliveries,
                   redeliveries, docxConfigured, nlpConfigured>>
    /\ UNCHANGED notPipeline

\* upload_handler, fileType txt: decode, create the record, mark the
\* candidate analyzed, trigger the NLP handler
UploadTxt(c) ==
    /\ uploadPc[c] = "none"
    /\ \E f \in {"none", "decode", "create_record", "update_status", "invoke"},
          text \in {"text", ""} :
          /\ analyses' =
                IF f \in {"decode", "create_record"} THEN analyses
                ELSE [analyses EXCEPT ![c] = Append(@, NewAnalysis(text))]
          /\ candidates' =
                [candidates EXCEPT ![c] =
                    IF f \in {"decode", "create_record", "update_status"}
                    THEN NewCandidate("txt")
                    ELSE WithStatus(NewCandidate("txt"), "analyzed")]
          /\ TriggerNlp(c, f \in {"none"} /\ nlpConfigured)
          /\ uploadPc' = [uploadPc EXCEPT ![c] =
                IF f \in {"decode", "create_record", "update_status"}
                THEN "500" ELSE "200"]
          /\ Ran("upload", c,
                 CASE f = "decode" -> "extraction_failed"
                   [] f \in {"create_record", "update_status"} -> "raised"
                   [] OTHER -> "ok")
    /\ UNCHANGED <<jobs, jobText, jobNotifies, pendingDocx, pendingNotif,
                   deliveries, redeliveries, docxConfigured, nlpConfigured>>
    /\ UNCHANGED notPipeline

\* upload_handler, fileType docx or doc: placeholder record, then invoke the
\* DOCX worker (failed when it is not configured or the invoke raises)
UploadDocx(c) ==
    /\ uploadPc[c] = "none"
    /\ \E ft \in {"docx", "doc"},
          f \in {"none", "create_record", "invoke", "update_status"} :
          LET fails == ~docxConfigured \/ f = "invoke" IN
          /\ analyses' =
                IF f = "create_record" THEN analyses
                ELSE [analyses EXCEPT ![c] = Append(@, BasicAnalysis)]
          /\ candidates' =
                [candidates EXCEPT ![c] =
                    IF f \in {"none", "invoke"} /\ fails
                    THEN WithStatus(NewCandidate(ft), "failed")
                    ELSE NewCandidate(ft)]
          /\ pendingDocx' =
                [pendingDocx EXCEPT ![c] =
                    IF f \in {"none", "update_status"} /\ docxConfigured
                    THEN @ + 1 ELSE @]
          /\ uploadPc' = [uploadPc EXCEPT ![c] =
                IF f = "create_record" \/ (f = "update_status" /\ fails)
                THEN "500" ELSE "200"]
          /\ Ran("upload", c,
                 CASE f = "create_record" -> "raised"
                   [] f = "update_status" /\ fails -> "raised"
                   [] f \in {"none", "invoke"} /\ fails -> "extraction_failed"
                   [] OTHER -> "ok")
    /\ UNCHANGED <<jobs, jobText, jobNotifies, pendingNotif, pendingNlp,
                   deliveries, redeliveries, docxConfigured, nlpConfigured>>
    /\ UNCHANGED notPipeline

\* upload_handler, fileType pdf, up to start_document_text_detection
UploadPdfStart(c) ==
    /\ uploadPc[c] = "none"
    /\ \E f \in {"none", "create_record", "sns", "start_job"} :
          /\ analyses' =
                IF f = "create_record" THEN analyses
                ELSE [analyses EXCEPT ![c] = Append(@, BasicAnalysis)]
          /\ candidates' =
                [candidates EXCEPT ![c] =
                    IF f = "start_job"
                    THEN WithStatus(NewCandidate("pdf"), "failed")
                    ELSE NewCandidate("pdf")]
          /\ jobs' = [jobs EXCEPT ![c] =
                IF f \in {"none", "sns"} THEN "running" ELSE @]
          /\ jobNotifies' = [jobNotifies EXCEPT ![c] = (f = "none")]
          /\ uploadPc' = [uploadPc EXCEPT ![c] =
                CASE f = "create_record" -> "500"
                  [] f = "start_job" -> "200"
                  [] OTHER -> "jobStarted"]
          /\ Ran("upload", c,
                 CASE f = "create_record" -> "raised"
                   [] f = "start_job" -> "extraction_failed"
                   [] OTHER -> "ok")
    /\ UNCHANGED <<jobText, pendingDocx, pendingNotif, pendingNlp, deliveries,
                   redeliveries, docxConfigured, nlpConfigured>>
    /\ UNCHANGED notPipeline

WithTextractJobIdOnly(item, job_id) ==
    [item EXCEPT !.textractJobId = job_id]

\* update_item SET textractJobId = :job_id, textExtractionStatus = :status,
\* #status = :candidate_status
WithTextractJob(item, job_id) ==
    [item EXCEPT !.textractJobId = job_id,
                 !.textExtractionStatus = "processing",
                 !.status = "processing"]

\* start_textract_job, after the job was started: store textractJobId and
\* status 'processing' (failed when that update raises)
UploadPdfPersist(c) ==
    /\ uploadPc[c] = "jobStarted"
    /\ \E f \in {"none", "persist_job"} :
          /\ candidates' =
                [candidates EXCEPT ![c] =
                    IF f = "persist_job" THEN WithStatus(@, "failed")
                    ELSE WithTextractJob(@, c)]
          /\ Ran("upload", c, IF f = "persist_job" THEN "raised" ELSE "ok")
    /\ uploadPc' = [uploadPc EXCEPT ![c] = "200"]
    /\ UNCHANGED <<analyses, jobs, jobText, jobNotifies, pendingDocx,
                   pendingNotif, pendingNlp, deliveries, redeliveries,
                   docxConfigured, nlpConfigured>>
    /\ UNCHANGED notPipeline

\* Textract finishes the job and publishes the completion notification
TextractJobFinishes(c) ==
    /\ jobs[c] = "running"
    /\ \E st \in {"SUCCEEDED", "FAILED"}, text \in {"text", ""} :
          /\ jobs' = [jobs EXCEPT ![c] = st]
          /\ jobText' = [jobText EXCEPT ![c] =
                IF st = "SUCCEEDED" THEN text ELSE ""]
    /\ pendingNotif' = [pendingNotif EXCEPT ![c] =
          IF jobNotifies[c] THEN @ + 1 ELSE @]
    /\ Ran("textract", c, "ok")
    /\ UNCHANGED <<candidates, analyses, jobNotifies, uploadPc, pendingDocx,
                   pendingNlp, deliveries, redeliveries, docxConfigured,
                   nlpConfigured>>
    /\ UNCHANGED notPipeline

\* candidates_table.scan(FilterExpression='textractJobId = :job_id') finds
\* an item (the job of candidate c carries job id c)
FoundByJobId(c) == candidates[c].textractJobId = c

\* textract_result_handler on a SUCCEEDED notification: new record with the
\* job's text, candidate analyzed, NLP triggered
ProcessTextractResults(c, f) ==
    LET stored == FoundByJobId(c) /\ f \notin {"get_results", "create_record"}
        marked == stored /\ f # "update_status"
    IN  /\ analyses' =
              IF stored
              THEN [analyses EXCEPT ![c] = Append(@, NewAnalysis(jobText[c]))]
              ELSE analyses
        /\ candidates' =
              IF marked
              THEN [candidates EXCEPT ![c] = WithStatusAndText(@, "analyzed")]
              ELSE candidates
        /\ TriggerNlp(c, marked /\ f = "none" /\ nlpConfigured)

\* textract_result_handler on any other status: candidate failed
UpdateCandidateStatusFailed(c, f) ==
    /\ candidates' =
          IF FoundByJobId(c) /\ f = "none"
          THEN [candidates EXCEPT ![c] = WithStatusAndText(@, "failed")]
          ELSE candidates
    /\ UNCHANGED <<analyses, pendingNlp>>

\* textract_result_handler.lambda_handler on one delivery of the notification
TextractResult(c) ==
    /\ pendingNotif[c] > 0
    /\ \E f \in {"none", "get_results", "create_record", "update_status",
                 "invoke"},
          again \in BOOLEAN :
          /\ Redeliver(again)
          /\ pendingNotif' = Consume(pendingNotif, c, again)
          /\ IF jobs[c] = "SUCCEEDED"
             THEN /\ ProcessTextractResults(c, f)
                  /\ deliveries' = [deliveries EXCEPT ![c] = @ + 1]
                  /\ Ran("textract_result", c,
                         IF f \in {"none", "invoke"} THEN "ok" ELSE "escaped")
             ELSE /\ UpdateCandidateStatusFailed(c, f)
                  /\ UNCHANGED deliveries
                  /\ Ran("textract_result", c,
                         IF f = "none" THEN "extraction_failed" ELSE "raised")
    /\ UNCHANGED <<jobs, jobText, jobNotifies, uploadPc, pendingDocx,
                   docxConfigured, nlpConfigured>>
    /\ UNCHANGED notPipeline

\* docx_txt_worker.lambda_handler on a direct invocation: download, extract,
\* new record, candidate analyzed, NLP triggered; any exception -> 500
DocxWorker(c) ==
    /\ pendingDocx[c] > 0
    /\ \E f \in {"none", "get_object", "extract", "create_record",
                 "update_status", "invoke"},
          text \in {"text", ""}, again \in BOOLEAN :
          LET stored == f \notin {"get_object", "extract", "create_record"}
              marked == stored /\ f # "update_status"
          IN  /\ Redeliver(again)
              /\ pendingDocx' = Consume(pendingDocx, c, again)
              /\ analyses' =
                    IF stored
                    THEN [analyses EXCEPT ![c] = Append(@, NewAnalysis(text))]
                    ELSE analyses
              /\ candidates' =
                    IF marked
                    THEN [candidates EXCEPT ![c] =
                             WithStatusAndText(@, "analyzed")]
                    ELSE candidates
              /\ TriggerNlp(c, marked /\ f = "none" /\ nlpConfigured)
              /\ Ran("docx_worker", c,
                     CASE f \in {"get_object", "extract"} -> "extraction_failed"
                       [] f \in {"create_record", "update_status"} -> "raised"
                       [] OTHER -> "ok")
    /\ UNCHANGED <<jobs, jobText, jobNotifies, uploadPc, pendingNotif,
                   deliveries, docxConfigured, nlpConfigured>>
    /\ UNCHANGED notPipeline

WithStructuredDataOverText(item) ==
    [item EXCEPT !.structured = TRUE, !.status = "completed",
                 !.extractedText = ""]

WithStructuredDataToggled(item) ==
    [item EXCEPT !.structured = ~@, !.status = "completed"]

\* update_analysis_record: SET every key of extracted_data (the profile
\* fields, status 'completed', updatedAt) on the record
WithStructuredData(item) ==
    [item EXCEPT !.structured = TRUE, !.status = "completed"]

\* nlp_handler.process_candidate_text: read Items[0] of the candidate's
\* records, derive the profile, write it to that record, mark the candidate
\* analyzed; an exception marks it failed
NlpHandler(c) ==
    /\ pendingNlp[c] > 0
    /\ \E f \in {"none", "query", "get_item", "extract", "update_record",
                 "update_status"},
          i \in 1..(IF Len(analyses[c]) = 0 THEN 1 ELSE Len(analyses[c])),
          again \in BOOLEAN :
          LET returnsEarly ==
                  f # "query" /\
                  (Len(analyses[c]) = 0 \/ analyses[c][i].extractedText = "")
              raises == f \in {"query", "get_item"}
              unwritten == f \in {"extract", "update_record"}
          IN  /\ f = "extract" => candidates[c].fileType \notin {"pdf", "docx"}
              /\ Redeliver(again)
              /\ pendingNlp' = Consume(pendingNlp, c, again)
              /\ analyses' =
                    IF returnsEarly \/ raises \/ unwritten
                    THEN analyses
                    ELSE [analyses EXCEPT ![c][i] = WithStructuredData(@)]
              /\ RanOn("nlp", c,
                       CASE returnsEarly \/ raises \/ unwritten ->
                               "structuring_failed"
                         [] f = "update_status" -> "raised"
                         [] OTHER -> "ok",
                       i)
              /\ candidates' =
                    IF returnsEarly \/ f = "update_status" THEN candidates
                    ELSE [candidates EXCEPT ![c] =
                             WithStatus(@, IF raises THEN "failed"
                                           ELSE "analyzed")]
    /\ UNCHANGED <<jobs, jobText, jobNotifies, uploadPc, pendingDocx,
                   pendingNotif, deliveries, docxConfigured, nlpConfigured>>
    /\ UNCHANGED notPipeline

PipeNext ==
    \/ \E c \in Candidates : UploadRejected(c)
    \/ \E c \in Candidates : UploadFails(c)
    \/ \E c \in Candidates : UploadTxt(c)
    \/ \E c \in Candidates : UploadDocx(c)
    \/ \E c \in Candidates : UploadPdfStart(c)
    \/ \E c \in Candidates : UploadPdfPersist(c)
    \/ \E c \in Candidates : TextractJobFinishes(c)
    \/ \E c \in Candidates : TextractResult(c)
    \/ \E c \in Candidates : DocxWorker(c)
    \/ \E c \in Candidates : NlpHandler(c)

(* ======================== text_extraction_errors ======================= *)
\* class TextExtractionErrorType
TextExtractionErrorType ==
    {"TEXTRACT_JOB_FAILED", "TEXTRACT_TIMEOUT", "TEXTRACT_INVALID_JOB",
     "TEXTRACT_SERVICE_ERROR", "DOCUMENT_CORRUPTED", "DOCUMENT_ENCRYPTED",
     "DOCUMENT_TOO_LARGE", "UNSUPPORTED_FORMAT", "NETWORK_ERROR",
     "PERMISSION_DENIED", "PROCESSING_TIMEOUT", "EMPTY_DOCUMENT",
     "UNKNOWN_ERROR"}

\* ERROR_MESSAGES
ERROR_MESSAGES ==
    [k \in TextExtractionErrorType |->
       CASE k = "TEXTRACT_JOB_FAILED" ->
              [user_message |-> "Text extraction failed due to document processing issues.",
               suggested_action |-> "Try uploading a different version of the document or convert it to a different format.",
               retry_possible |-> TRUE]
         [] k = "TEXTRACT_TIMEOUT" ->
              [user_message |-> "Text extraction timed out. The document may be too large or complex.",
               suggested_action |-> "Try uploading a smaller document or split large documents into smaller sections.",
               retry_possible |-> TRUE]
         [] k = "TEXTRACT_INVALID_JOB" ->
              [user_message |-> "Text extraction job expired or was invalid.",
               suggested_action |-> "Please upload the document again to restart the extraction process.",
               retry_possible |-> TRUE]
         [] k = "TEXTRACT_SERVICE_ERROR" ->
              [user_message |-> "AWS Textract service is temporarily unavailable.",
               suggested_action |-> "This is usually temporary. Please try again in a few minutes.",
               retry_possible |-> TRUE]
         [] k = "DOCUMENT_CORRUPTED" ->
              [user_message |-> "The document appears to be corrupted or damaged.",
               suggested_action |-> "Try opening the document in its native application and re-saving it, then upload again.",
               retry_possible |-> FALSE]
         [] k = "DOCUMENT_ENCRYPTED" ->
              [user_message |-> "The document is password-protected or encrypted.",
               suggested_action |-> "Remove password protection from the document and upload again.",
               retry_possible |-> FALSE]
         [] k = "DOCUMENT_TOO_LARGE" ->
              [user_message |-> "The document is too large for processing.",
               suggested_action |-> "Please use a document smaller than 10MB or compress the file.",
               retry_possible |-> FALSE]
         [] k = "UNSUPPORTED_FORMAT" ->
              [user_message |-> "The document format is not supported.",
               suggested_action |-> "Please use PDF, DOCX, or TXT format.",
               retry_possible |-> FALSE]
         [] k = "NETWORK_ERROR" ->
              [user_message |-> "Network connection error occurred during processing.",
               suggested_action |-> "Check your internet connection and try again.",
               retry_possible |-> TRUE]
         [] k = "PERMISSION_DENIED" ->
              [user_message |-> "Access denied while processing the document.",
               suggested_action |-> "Ensure the document is not restricted and try again.",
               retry_possible |-> TRUE]
         [] k = "PROCESSING_TIMEOUT" ->
              [user_message |-> "Document processing timed out.",
               suggested_action |-> "Try uploading a smaller or simpler document.",
               retry_possible |-> TRUE]
         [] k = "EMPTY_DOCUMENT" ->
              [user_message |-> "No text content was found in the document.",
               suggested_action |-> "Ensure the document contains selectable text, not just images or scanned content.",
               retry_possible |-> FALSE]
         [] OTHER ->
              [user_message |-> "An unexpected error occurred during text extraction.",
               suggested_action |-> "Please try again or contact support if the problem persists.",
               retry_possible |-> TRUE]]

\* the words and phrases a message is made of: every keyword of
\* classify_error, "job", a word that is no keyword, and three spellings
\* with capitals
Words ==
    {"textract", "invalid", "expired", "timeout", "timed out", "failed",
     "corrupt", "damaged", "invalid format", "password", "encrypted",
     "protected", "too large", "size limit", "file size", "unsupported",
     "format not supported", "empty", "no text", "network", "connection",
     "permission", "access denied", "forbidden", "job", "disk",
     "Textract", "TIMEOUT", "Job"}

RECURSIVE SeqsUpTo(_, _)
\* the sequences over S of length at most n
SeqsUpTo(S, n) ==
    IF n = 0 THEN {<<>>}
    ELSE LET shorter == SeqsUpTo(S, n - 1)
         IN  shorter \cup {Append(m, w) : m \in shorter, w \in S}

\* the values of JobStatus
JobStatuses == {"FAILED", "SUCCEEDED", "IN_PROGRESS"}

\* str.lower() on one word
Lower(word) ==
    CASE word = "Textract" -> "textract"
      [] word = "TIMEOUT" -> "timeout"
      [] word = "Job" -> "job"
      [] word = "Unexpected" -> "unexpected"
      [] word = "FAILED" -> "failed"
      [] word = "SUCCEEDED" -> "succeeded"
      [] word = "IN_PROGRESS" -> "in_progress"
      [] OTHER -> word

\* keyword in word, for lowercase words
InWord(keyword, word) ==
    \/ keyword = word
    \/ <<keyword, word>> \in {<<"invalid", "invalid format">>}

\* keyword in error_message.lower()
Contains(message, keyword) ==
    \E i \in 1..Len(message) : InWord(keyword, Lower(message[i]))

\* any(keyword in error_lower for keyword in keywords)
ContainsAny(message, keywords) ==
    \E k \in keywords : Contains(message, k)

ClassifyNetworkFirst(message) ==
    CASE message = <<>> -> "UNKNOWN_ERROR"
      [] Contains(message, "textract") ->
            (CASE ContainsAny(message, {"invalid", "expired"}) ->
                     "TEXTRACT_INVALID_JOB"
               [] ContainsAny(message, {"timeout", "timed out"}) ->
                     "TEXTRACT_TIMEOUT"
               [] Contains(message, "failed") -> "TEXTRACT_JOB_FAILED"
               [] OTHER -> "TEXTRACT_SERVICE_ERROR")
      [] ContainsAny(message, {"network", "connection", "timeout"}) ->
            (IF Contains(message, "timeout") THEN "PROCESSING_TIMEOUT"
             ELSE "NETWORK_ERROR")
      [] ContainsAny(message, {"corrupt", "damaged", "invalid format"}) ->
            "DOCUMENT_CORRUPTED"
      [] ContainsAny(message, {"password", "encrypted", "protected"}) ->
            "DOCUMENT_ENCRYPTED"
      [] ContainsAny(message, {"too large", "size limit", "file size"}) ->
            "DOCUMENT_TOO_LARGE"
      [] ContainsAny(message, {"unsupported", "format not supported"}) ->
            "UNSUPPORTED_FORMAT"
      [] ContainsAny(message, {"empty", "no text"}) -> "EMPTY_DOCUMENT"
      [] ContainsAny(message, {"permission", "access denied", "forbidden"}) ->
            "PERMISSION_DENIED"
      [] OTHER -> "UNKNOWN_ERROR"

\* classify_error
classify_error(message) ==
    CASE message = <<>> -> "UNKNOWN_ERROR"
      [] Contains(message, "textract") ->
            (CASE ContainsAny(message, {"invalid", "expired"}) ->
                     "TEXTRACT_INVALID_JOB"
               [] ContainsAny(message, {"timeout", "timed out"}) ->
                     "TEXTRACT_TIMEOUT"
               [] Contains(message, "failed") -> "TEXTRACT_JOB_FAILED"
               [] OTHER -> "TEXTRACT_SERVICE_ERROR")
      [] ContainsAny(message, {"corrupt", "damaged", "invalid format"}) ->
            "DOCUMENT_CORRUPTED"
      [] ContainsAny(message, {"password", "encrypted", "protected"}) ->
            "DOCUMENT_ENCRYPTED"
      [] ContainsAny(message, {"too large", "size limit", "file size"}) ->
            "DOCUMENT_TOO_LARGE"
      [] ContainsAny(message, {"unsupported", "format not supported"}) ->
            "UNSUPPORTED_FORMAT"
      [] ContainsAny(message, {"empty", "no text"}) -> "EMPTY_DOCUMENT"
      [] ContainsAny(message, {"network", "connection", "timeout"}) ->
            (IF Contains(message, "timeout") THEN "PROCESSING_TIMEOUT"
             ELSE "NETWORK_ERROR")
      [] ContainsAny(message, {"permission", "access denied", "forbidden"}) ->
            "PERMISSION_DENIED"
      [] OTHER -> "UNKNOWN_ERROR"

PolicyOfDefault(error_type, default) == ERROR_MESSAGES[default]

\* cls.ERROR_MESSAGES.get(error_type, cls.ERROR_MESSAGES[default])
PolicyOf(error_type, default) ==
    IF error_type \in DOMAIN ERROR_MESSAGES THEN ERROR_MESSAGES[error_type]
    ELSE ERROR_MESSAGES[default]

\* TextExtractionError(error_type, message, technical_details,
\* retry_possible, suggested_action)
TextExtractionError(error_type, error_info, details) ==
    [error_type |-> error_type,
     message |-> error_info.user_message,
     technical_details |-> details,
     retry_possible |-> error_info.retry_possible,
     suggested_action |-> error_info.suggested_action]

\* create_error
create_error(message) ==
    LET error_type == classify_error(message)
    IN  TextExtractionError(error_type,
                            PolicyOf(error_type, "UNKNOWN_ERROR"), message)

\* handle_textract_error
handle_textract_error(status, status_message) ==
    IF status = "FAILED"
    THEN LET message == <<"Textract", "job", "failed">> \o status_message
             error_type == classify_error(message)
         IN  TextExtractionError(error_type,
                                 PolicyOf(error_type, "TEXTRACT_JOB_FAILED"),
                                 message)
    ELSE create_error(<<"Unexpected", "Textract", "status", status>>)

NoExtractionError ==
    [error_type |-> "none", message |-> "", technical_details |-> <<>>,
     retry_possible |-> FALSE, suggested_action |-> ""]

\* get_fallback_behavior: the entry of fallback_behaviors, or the default
\* for the kinds it does not list
get_fallback_behavior(error_type) ==
    CASE error_type = "TEXTRACT_JOB_FAILED" ->
            [show_manual_input |-> TRUE, allow_retry |-> TRUE,
             suggest |-> "format_conversion"]
      [] error_type = "TEXTRACT_TIMEOUT" ->
            [show_manual_input |-> TRUE, allow_retry |-> TRUE,
             suggest |-> "file_splitting"]
      [] error_type = "DOCUMENT_CORRUPTED" ->
            [show_manual_input |-> TRUE, allow_retry |-> FALSE,
             suggest |-> "file_repair"]
      [] error_type = "DOCUMENT_ENCRYPTED" ->
            [show_manual_input |-> TRUE, allow_retry |-> FALSE,
             suggest |-> "password_removal"]
      [] error_type = "DOCUMENT_TOO_LARGE" ->
            [show_manual_input |-> TRUE, allow_retry |-> FALSE,
             suggest |-> "file_compression"]
      [] error_type = "EMPTY_DOCUMENT" ->
            [show_manual_input |-> TRUE, allow_retry |-> FALSE,
             suggest |-> "content_check"]
      [] OTHER ->
            [show_manual_input |-> TRUE, allow_retry |-> TRUE,
             suggest |-> "contact_support"]

\* format_error_for_api: the 'error' dictionary of the response
format_error_for_api(e) ==
    [type |-> e.error_type,
     message |-> e.message,
     suggestedAction |-> e.suggested_action,
     retryPossible |-> e.retry_possible,
     fallbackOptions |-> get_fallback_behavior(e.error_type)]

NoApiError ==
    [type |-> "none", message |-> "", suggestedAction |-> "",
     retryPossible |-> FALSE,
     fallbackOptions |-> [show_manual_input |-> FALSE, allow_retry |-> FALSE,
                          suggest |-> "none"]]

\* no classification under way; the values the other specifications hold
\* these variables at
ClassifierParked ==
    /\ error_message = <<>>
    /\ job_status = "FAILED"
    /\ classified = "none"
    /\ error = NoExtractionError
    /\ api_error = NoApiError
    /\ cpc = "parked"

\* any message of at most MaxWords words and any job status
ClassifierInit ==
    /\ error_message \in SeqsUpTo(Words, MaxWords)
    /\ job_status \in JobStatuses
    /\ classified = "none"
    /\ error = NoExtractionError
    /\ api_error = NoApiError
    /\ cpc = "input"

\* TextExtractionErrorHandler.classify_error(error_message)
ClassifyError ==
    /\ cpc = "input"
    /\ classified' = classify_error(error_message)
    /\ cpc' = "classify_error"
    /\ UNCHANGED <<error_message, job_status, error, api_error>>
    /\ UNCHANGED notClassifier

\* TextExtractionErrorHandler.create_error(error_message)
CreateError ==
    /\ cpc = "input"
    /\ error' = create_error(error_message)
    /\ cpc' = "create_error"
    /\ UNCHANGED <<error_message, job_status, classified, api_error>>
    /\ UNCHANGED notClassifier

\* TextExtractionErrorHandler.handle_textract_error(textract_response)
HandleTextractError ==
    /\ cpc = "input"
    /\ error' = handle_textract_error(job_status, error_message)
    /\ cpc' = "handle_textract_error"
    /\ UNCHANGED <<error_message, job_status, classified, api_error>>
    /\ UNCHANGED notClassifier

\* format_error_for_api(error) on the error that was built
FormatErrorForApi ==
    /\ cpc \in {"create_error", "handle_textract_error"}
    /\ api_error' = format_error_for_api(error)
    /\ cpc' = "format_error_for_api"
    /\ UNCHANGED <<error_message, job_status, classified, error>>
    /\ UNCHANGED notClassifier

ClassifierNext ==
    \/ ClassifyError
    \/ CreateError
    \/ HandleTextractError
    \/ FormatErrorForApi

(* ============================ matches_handler ========================== *)
\* str.lower() on a skill or a word of the resume text
LowerSkill(word) ==
    CASE word = "Python" -> "python"
      [] word = "Docker" -> "docker"
      [] word = "Java" -> "java"
      [] word = "JavaScript" -> "javascript"
      [] word = "Javascript" -> "javascript"
      [] word = "React" -> "react"
      [] word = "AWS" -> "aws"
      [] word = "SQL" -> "sql"
      [] word = "Git" -> "git"
      [] word = "Linux" -> "linux"
      [] OTHER -> word

\* str.title() on a keyword of skill_keywords
Title(keyword) ==
    CASE keyword = "python" -> "Python"
      [] keyword = "java" -> "Java"
      [] keyword = "javascript" -> "Javascript"
      [] keyword = "react" -> "React"
      [] keyword = "docker" -> "Docker"
      [] OTHER -> keyword

\* a in b, for lowercase skills and words
InSkill(a, b) ==
    \/ a = b
    \/ <<a, b>> \in {<<"java", "javascript">>}

\* skill_keywords, the part of the list the modelled texts can hit
skill_keywords == {"python", "java", "javascript", "react", "docker"}

\* extract_skills_from_text
extract_skills_from_text(text) ==
    {Title(skill) : skill \in
        {k \in skill_keywords :
            \E i \in 1..Len(text) : InSkill(k, LowerSkill(text[i]))}}

\* an item of the analyses table: new format (direct fields) or old format
\* (nlpResults); a field that is absent has its has... flag FALSE
AnalysisItem(old, nsk, nhs, nsc, sk, hs, sc, text) ==
    [hasNlpResults |-> old,
     nlpResults |-> [skills |-> nsk,
                     hasOverallScore |-> nhs,
                     overallScore |-> nsc],
     skills |-> sk,
     hasOverallScore |-> hs,
     overallScore |-> sc,
     extractedText |-> text]

\* the analysis items a candidate can have
AnalysisItems ==
    {AnalysisItem(FALSE, {}, FALSE, 0, {"python", "react"}, TRUE, 0, <<>>),
     AnalysisItem(FALSE, {}, FALSE, 0, {"python", "react"}, FALSE, 0, <<>>),
     AnalysisItem(FALSE, {}, FALSE, 0, {"JavaScript"}, TRUE, 85, <<>>),
     AnalysisItem(FALSE, {}, FALSE, 0, {}, FALSE, 0, <<>>),
     AnalysisItem(FALSE, {}, FALSE, 0, {}, TRUE, 85,
                  <<"Python", "developer">>),
     AnalysisItem(TRUE, {"python"}, TRUE, 78, {"Docker"}, TRUE, 85, <<>>),
     AnalysisItem(TRUE, {"python"}, FALSE, 0, {"Docker"}, TRUE, 85, <<>>)}

\* the job postings the table can hold
JobItems ==
    {[skills |-> <<"Python", "Docker">>, status |-> "active"],
     [skills |-> <<>>, status |-> "active"],
     [skills |-> <<"Python", "Docker", "Java", "AWS", "SQL", "Git", "Linux">>,
      status |-> "active"],
     [skills |-> <<"Python", "Docker">>, status |-> "closed"]}

\* the job ids requests name: those of the table and one that is in no table
JobIds == 1..(MaxJobs + 1)

\* candidate_skills of calculate_match_score
candidate_skills(analysis) ==
    LET stored == IF analysis.hasNlpResults THEN analysis.nlpResults.skills
                  ELSE analysis.skills
    IN  IF stored = {} THEN extract_skills_from_text(analysis.extractedText)
        ELSE stored

\* skill_matches of calculate_match_score
skill_matches(cand_skills, job_skills) ==
    Cardinality({i \in 1..Len(job_skills) :
        \E c \in cand_skills :
            \/ InSkill(LowerSkill(c), LowerSkill(job_skills[i]))
            \/ InSkill(LowerSkill(job_skills[i]), LowerSkill(c))})

ExperienceScoreDefaultZero(analysis) ==
    IF analysis.hasNlpResults
    THEN (IF analysis.nlpResults.hasOverallScore
          THEN analysis.nlpResults.overallScore ELSE 0)
    ELSE (IF analysis.hasOverallScore THEN analysis.overallScore ELSE 0)

\* experience_score of calculate_match_score
experience_score(analysis) ==
    IF analysis.hasNlpResults
    THEN (IF analysis.nlpResults.hasOverallScore
          THEN analysis.nlpResults.overallScore ELSE 50)
    ELSE (IF analysis.hasOverallScore THEN analysis.overallScore ELSE 50)

\* round(num / den, 0): to the nearest integer, a tie to the even one
RoundHalfEven(num, den) ==
    LET q == num \div den
        r == num % den
    IN  IF 2 * r < den THEN q
        ELSE IF 2 * r > den THEN q + 1
        ELSE IF q % 2 = 0 THEN q ELSE q + 1

ScoreWithClock(analysis_items, job_items, job_id) ==
    IF analysis_items = <<>> \/ job_id \notin 1..Len(job_items) THEN 0
    ELSE RoundHalfEven(100 * 40 * experience_score(analysis_items[1]), 100) + utcnow

\* calculate_match_score, in hundredths:
\* round(skill_matches / total_skills * 100 * 0.6 + experience_score * 0.4, 2)
calculate_match_score(analysis_items, job_items, job_id) ==
    IF analysis_items = <<>> THEN 0
    ELSE IF job_id \notin 1..Len(job_items) THEN 0
    ELSE LET analysis == analysis_items[1]
             job_skills == job_items[job_id].skills
             total_skills == Len(job_skills)
             matched == skill_matches(candidate_skills(analysis), job_skills)
             experience == experience_score(analysis)
         IN  IF total_skills > 0
             THEN RoundHalfEven(6000 * matched + 40 * experience * total_skills,
                                total_skills)
             ELSE RoundHalfEven(40 * experience, 1)

\* the match items of generate_matches_for_candidate, before the sort
ScoredMatches(analysis_items, job_items) ==
    LET item(j) == [jobId |-> j,
                    matchScore |-> calculate_match_score(analysis_items, job_items, j),
                    createdAt |-> utcnow]
    IN  SelectSeq([j \in 1..Len(job_items) |-> item(j)],
                  LAMBDA m : m.matchScore > 0)

RECURSIVE SortTiesReversed(_)
SortTiesReversed(matches) ==
    IF matches = <<>> THEN <<>>
    ELSE LET rest == SortTiesReversed(Tail(matches))
             m == Head(matches)
             lower == SelectSeq(rest, LAMBDA x : x.matchScore <= m.matchScore)
             higher == SelectSeq(rest, LAMBDA x : x.matchScore > m.matchScore)
         IN  higher \o lower \o <<m>>

RECURSIVE SortByMatchScore(_)
\* matches.sort(key=lambda x: x['matchScore'], reverse=True): a stable sort
SortByMatchScore(matches) ==
    IF matches = <<>> THEN <<>>
    ELSE LET rest == SortByMatchScore(Tail(matches))
             m == Head(matches)
             higher == SelectSeq(rest, LAMBDA x : x.matchScore > m.matchScore)
             lower == SelectSeq(rest, LAMBDA x : x.matchScore <= m.matchScore)
         IN  higher \o <<m>> \o lower

\* generate_matches_for_candidate without a fault
generate_matches_for_candidate(analysis_items, job_items) ==
    SortByMatchScore(ScoredMatches(analysis_items, job_items))

NoResponse == [source |-> "none", matches |-> <<>>, items |-> {}]

\* the history entry of one call of calculate_match_score
Evaluation(analysis_items, job_items, job_id) ==
    [at |-> utcnow,
     stored |-> Cardinality(matchesTable),
     score |-> calculate_match_score(analysis_items, job_items, job_id)]

\* no matching under way; the values the other specifications hold these
\* variables at
MatchesParked ==
    /\ analysesTable = <<>>
    /\ jobsTable = <<>>
    /\ matchesTable = {}
    /\ response = NoResponse
    /\ evaluated = [j \in JobIds |-> <<>>]
    /\ utcnow = 0

\* a candidate with no analysis item or one, any jobs table of at most MaxJobs
\* postings, no stored match
MatchesInit ==
    /\ analysesTable \in {<<>>} \cup {<<a>> : a \in AnalysisItems}
    /\ jobsTable \in SeqsUpTo(JobItems, MaxJobs)
    /\ matchesTable = {}
    /\ response = NoResponse
    /\ evaluated = [j \in JobIds |-> <<>>]
    /\ utcnow = 0

\* POST /matches: create_match for the candidate and job_id
CreateMatch(job_id) ==
    /\ utcnow < MaxRequests
    /\ utcnow' = utcnow + 1
    /\ evaluated' = [evaluated EXCEPT ![job_id] =
                        Append(@, Evaluation(analysesTable, jobsTable, job_id))]
    /\ matchesTable' =
          {m \in matchesTable : m.jobId # job_id}
          \cup {[jobId |-> job_id,
                 score |-> calculate_match_score(analysesTable, jobsTable,
                                                 job_id),
                 status |-> "pending",
                 createdAt |-> utcnow]}
    /\ UNCHANGED <<analysesTable, jobsTable, response>>
    /\ UNCHANGED notMatches

\* GET /matches?candidateId: the stored matches are returned
GetStoredMatches ==
    /\ utcnow < MaxRequests
    /\ matchesTable # {}
    /\ utcnow' = utcnow + 1
    /\ response' = [source |-> "stored", matches |-> <<>>,
                    items |-> matchesTable]
    /\ UNCHANGED <<analysesTable, jobsTable, matchesTable, evaluated>>
    /\ UNCHANGED notMatches

\* GET /matches?candidateId with no stored match:
\* generate_matches_for_candidate
GenerateMatches ==
    /\ utcnow < MaxRequests
    /\ matchesTable = {}
    /\ utcnow' = utcnow + 1
    /\ response' = [source |-> "generated",
                    matches |-> generate_matches_for_candidate(analysesTable,
                                                               jobsTable),
                    items |-> {}]
    /\ evaluated' =
          [j \in JobIds |->
             IF j \in 1..Len(jobsTable)
             THEN Append(evaluated[j],
                         Evaluation(analysesTable, jobsTable, j))
             ELSE evaluated[j]]
    /\ UNCHANGED <<analysesTable, jobsTable, matchesTable>>
    /\ UNCHANGED notMatches

\* GET /matches?candidateId with no stored match, the scan of the jobs table
\* raising: generate_matches_for_candidate returns []
GenerateMatchesFails ==
    /\ utcnow < MaxRequests
    /\ matchesTable = {}
    /\ utcnow' = utcnow + 1
    /\ response' = [source |-> "generate_failed", matches |-> <<>>,
                    items |-> {}]
    /\ UNCHANGED <<analysesTable, jobsTable, matchesTable, evaluated>>
    /\ UNCHANGED notMatches

\* PUT /jobs/{jobId}: update_job of jobs_handler replaces the skills of a
\* posting of the table and keeps its status
UpdateJob(job_id, skills) ==
    /\ job_id \in 1..Len(jobsTable)
    /\ skills # jobsTable[job_id].skills
    /\ jobsTable' = [jobsTable EXCEPT ![job_id] =
                        [skills |-> skills, status |-> @.status]]
    /\ UNCHANGED <<analysesTable, matchesTable, response, evaluated, utcnow>>
    /\ UNCHANGED notMatches

\* the matches handler with the jobs handler updating the postings
MatchesWithUpdatesNext ==
    \/ \E job_id \in JobIds : CreateMatch(job_id)
    \/ GetStoredMatches
    \/ GenerateMatches
    \/ GenerateMatchesFails
    \/ \E job_id \in JobIds, item \in JobItems : UpdateJob(job_id, item.skills)

MatchesNext ==
    \/ \E job_id \in JobIds : CreateMatch(job_id)
    \/ GetStoredMatches
    \/ GenerateMatches
    \/ GenerateMatchesFails

(* ===================== nlp_handler: structured data ==================== *)
\* found_skills[:20] of extract_skills
SkillsLimit == 20

\* the numbers of skills of the vocabulary a text can name
FoundSkillCounts == {0, 1, 3, 14, 17, 20, 25}

\* what the extract_* functions find in a text: the number of vocabulary
\* skills it names, the greatest number of years it states, whether a
\* degree, a university and a job title are found
Texts ==
    [skills : FoundSkillCounts, years : 0..MaxYears,
     degree : BOOLEAN, university : BOOLEAN, title : BOOLEAN]

\* the dictionary of profile fields; present is FALSE for {}
ExtractedData(n_skills, total_years, degree, university, role, score) ==
    [present |-> TRUE, skills |-> n_skills, totalYears |-> total_years,
     degree |-> degree, university |-> university, currentRole |-> role,
     overallScore |-> score]

\* {}
NoData ==
    [present |-> FALSE, skills |-> 0, totalYears |-> 0, degree |-> FALSE,
     university |-> FALSE, currentRole |-> FALSE, overallScore |-> 0]

\* min(a, b)
Min(a, b) == IF a <= b THEN a ELSE b

\* extract_skills: the skills found, at most 20
extract_skills(t) == Min(t.skills, SkillsLimit)

\* calculate_overall_score
calculate_overall_score(n_skills, total_years, degree, university, role) ==
    LET skills_score == Min(n_skills * 2, 40)
        experience_points ==
            IF total_years > 0
            THEN (IF total_years >= 5 THEN 30
                  ELSE IF total_years >= 3 THEN 20
                  ELSE IF total_years >= 1 THEN 10 ELSE 0)
            ELSE 0
        education_points ==
            IF degree THEN 20 ELSE IF university THEN 10 ELSE 0
        role_points == IF role THEN 10 ELSE 0
    IN  Min(skills_score + experience_points + education_points + role_points,
            100)

\* extract_from_text
extract_from_text(t) ==
    ExtractedData(extract_skills(t), t.years, t.degree, t.university, t.title,
                  calculate_overall_score(extract_skills(t), t.years,
                                          t.degree, t.university, t.title))

\* get_hardcoded_pdf_data: 17 skills, 3 years, a degree, a university, a
\* current role, overallScore 85
get_hardcoded_pdf_data == ExtractedData(17, 3, TRUE, TRUE, TRUE, 85)

\* extract_structured_data: the fixture for pdf; for docx
\* get_hardcoded_docx_data raises on Decimal('20XX') and the except returns
\* {}; extract_from_text for the other file types
extract_structured_data(t, ft) ==
    IF ft = "pdf" THEN get_hardcoded_pdf_data
    ELSE IF ft = "docx" THEN NoData
    ELSE extract_from_text(t)

\* no structuring under way; the values the other specifications hold these
\* variables at
StructuringParked ==
    /\ file_type = "txt"
    /\ text_content = [skills |-> 0, years |-> 0, degree |-> FALSE,
                       university |-> FALSE, title |-> FALSE]
    /\ extracted_data = NoData
    /\ spc = "parked"

\* any text and any file type the upload accepts
StructuringInit ==
    /\ file_type \in allowed_types
    /\ text_content \in Texts
    /\ extracted_data = NoData
    /\ spc = "input"

\* extract_structured_data(text_content, file_type)
ExtractStructuredData ==
    /\ spc = "input"
    /\ extracted_data' = extract_structured_data(text_content, file_type)
    /\ spc' = "extracted"
    /\ UNCHANGED <<file_type, text_content>>
    /\ UNCHANGED notStructuring

\* extract_from_text raising: its except returns {}
ExtractFromTextFails ==
    /\ spc = "input"
    /\ file_type \notin {"pdf", "docx"}
    /\ extracted_data' = NoData
    /\ spc' = "extracted"
    /\ UNCHANGED <<file_type, text_content>>
    /\ UNCHANGED notStructuring

StructuringNext ==
    \/ ExtractStructuredData
    \/ ExtractFromTextFails

(* ====================== upload_handler: validation ===================== *)
\* 10 * 1024 * 1024
MaxFileSize == 10 * 1024 * 1024

\* the values of fileType a request can carry
RequestFileTypes == allowed_types \cup {"exe", "png", "PDF", ""}

\* the sizes of the decoded payload a request can have
RequestSizes ==
    {0, 1, MaxFileSize - 1, MaxFileSize, MaxFileSize + 1, 2 * MaxFileSize}

FileTooLargeInclusive(size) == size >= MaxFileSize

\* len(file_content) > 10 * 1024 * 1024
FileTooLarge(size) == size > MaxFileSize

\* the two validations of lambda_handler: the statusCode they return, 0 when
\* the request passes both
Validate(req) ==
    IF req.fileType \notin allowed_types THEN 400
    ELSE IF FileTooLarge(req.size) THEN 400
    ELSE 0

\* no upload under way; the values the other specifications hold these
\* variables at
UploadParked ==
    /\ request = [fileType |-> "", size |-> 0]
    /\ upload_response = 0
    /\ s3_objects = 0
    /\ candidate_items = 0
    /\ processing = FALSE

\* any request, nothing stored
UploadInit ==
    /\ request \in [fileType : RequestFileTypes, size : RequestSizes]
    /\ upload_response = 0
    /\ s3_objects = 0
    /\ candidate_items = 0
    /\ processing = FALSE

\* lambda_handler on a request that fails a validation
UploadInvalid ==
    /\ upload_response = 0
    /\ Validate(request) = 400
    /\ upload_response' = 400
    /\ UNCHANGED <<request, s3_objects, candidate_items, processing>>
    /\ UNCHANGED notUpload

\* lambda_handler on a request that passes the validations: put_object,
\* put_item of the candidate, then the processing of the file type; a call
\* that raises ends the handler with 500
UploadAccepted(fault) ==
    /\ upload_response = 0
    /\ Validate(request) = 0
    /\ s3_objects' = IF fault = "put_object" THEN 0 ELSE 1
    /\ candidate_items' = IF fault \in {"put_object", "put_item"} THEN 0 ELSE 1
    /\ processing' = (fault = "none")
    /\ upload_response' = IF fault \in {"put_object", "put_item"} THEN 500
                          ELSE 200
    /\ UNCHANGED request
    /\ UNCHANGED notUpload

UploadNext ==
    \/ UploadInvalid
    \/ \E fault \in {"none", "put_object", "put_item", "processing"} :
          UploadAccepted(fault)

(* ============================ specifications =========================== *)
BreakerSpecInit ==
    /\ BreakerInit
    /\ RetryParked /\ PipeParked /\ ClassifierParked /\ MatchesParked
    /\ StructuringParked /\ UploadParked

BreakerSpec == BreakerSpecInit /\ [][BreakerNext]_vars

RetrySpecInit ==
    /\ RetryInit
    /\ BreakerParked /\ PipeParked /\ ClassifierParked /\ MatchesParked
    /\ StructuringParked /\ UploadParked

RetrySpec == RetrySpecInit /\ [][RetryNext]_vars

Init ==
    /\ PipeInit
    /\ BreakerParked /\ RetryParked /\ ClassifierParked /\ MatchesParked
    /\ StructuringParked /\ UploadParked

Spec == Init /\ [][PipeNext]_vars

ClassifierSpecInit ==
    /\ ClassifierInit
    /\ BreakerParked /\ RetryParked /\ PipeParked /\ MatchesParked
    /\ StructuringParked /\ UploadParked

\* the pipeline under fair scheduling: every pending worker invocation,
\* stage trigger and job notification is eventually handled, a started job
\* eventually finishes, and the upload handler runs to its end
PipeFairness ==
    \A c \in Candidates :
        /\ WF_vars(UploadPdfPersist(c))
        /\ WF_vars(TextractJobFinishes(c))
        /\ WF_vars(TextractResult(c))
        /\ WF_vars(DocxWorker(c))
        /\ WF_vars(NlpHandler(c))

FairSpec == Init /\ [][PipeNext]_vars /\ PipeFairness

ClassifierSpec == ClassifierSpecInit /\ [][ClassifierNext]_vars

MatchesSpecInit ==
    /\ MatchesInit
    /\ BreakerParked /\ RetryParked /\ PipeParked /\ ClassifierParked
    /\ StructuringParked /\ UploadParked

MatchesSpec == MatchesSpecInit /\ [][MatchesNext]_vars

MatchesWithUpdatesSpec == MatchesSpecInit /\ [][MatchesWithUpdatesNext]_vars

StructuringSpecInit ==
    /\ StructuringInit
    /\ BreakerParked /\ RetryParked /\ PipeParked /\ ClassifierParked
    /\ MatchesParked /\ UploadParked

UploadSpecInit ==
    /\ UploadInit
    /\ BreakerParked /\ RetryParked /\ PipeParked /\ ClassifierParked
    /\ MatchesParked /\ StructuringParked

UploadSpec == UploadSpecInit /\ [][UploadNext]_vars

StructuringSpec == StructuringSpecInit /\ [][StructuringNext]_vars

(* ------------------------ CircuitBreaker: claims ----------------------- *)

\* C3: a CLOSED breaker stays CLOSED while fewer than failure_threshold
\* failures have been recorded since the last recorded success, and it
\* leaves CLOSED only for OPEN, on the recorded failure that brings that
\* number to failure_threshold.
C3_ClosedOpensExactlyAtThreshold ==
    /\ [](state = CLOSED => failsSinceSuccess < failure_threshold)
    /\ [][(state = CLOSED /\ state' # CLOSED) =>
            /\ state' = OPEN
            /\ failsSinceSuccess' = failsSinceSuccess + 1
            /\ failsSinceSuccess' = failure_threshold]_vars
    /\ [][(state = CLOSED /\ failsSinceSuccess' >= failure_threshold) =>
            state' = OPEN]_vars

\* C3 witness: with failure_threshold = 2 the breaker has opened after a
\* success had reset the count and two failures followed it.
C3_Witness ==
    /\ failure_threshold = 2
    /\ state = OPEN
    /\ last_success_time > 0
    /\ failsSinceSuccess = 2
    /\ failure_count = 2

\* C4: a call() on an OPEN breaker whose recovery timeout has not elapsed is
\* rejected with CircuitBreakerOpenError, the wrapped function is not
\* invoked, and state, failure_count, success_count and last_failure_time
\* are left as they were.
C4_OpenRejectsWithoutEffect ==
    [][\A t \in Threads :
         (CallEnter(t) /\ state = OPEN
            /\ now - last_failure_time < recovery_timeout) =>
            /\ outcome'[t] = "CircuitBreakerOpenError"
            /\ pc'[t] = "idle"
            /\ recorded'[t] = 0
            /\ UNCHANGED <<state, failure_count, success_count,
                           last_failure_time>>]_vars

\* C4 witness: a call was rejected while the breaker is OPEN and the
\* timeout has not elapsed.
C4_Witness ==
    /\ state = OPEN
    /\ now - last_failure_time < recovery_timeout
    /\ \E t \in Threads : outcome[t] = "CircuitBreakerOpenError"

\* C5: a call() on an OPEN breaker with elapsed time since the last failure
\* at least recovery_timeout (equality included) moves it to HALF_OPEN with
\* success_count = 0 and invokes the wrapped function; OPEN -> HALF_OPEN
\* happens on a call attempt only.
C5_ProbeAtRecoveryTimeout ==
    /\ [][\A t \in Threads :
            (CallEnter(t) /\ state = OPEN
               /\ now - last_failure_time >= recovery_timeout) =>
               /\ state' = HALF_OPEN
               /\ success_count' = 0
               /\ pc'[t] = "executing"]_vars
    /\ [][(state = OPEN /\ state' = HALF_OPEN) =>
            \E t \in Threads : CallEnter(t)]_vars

\* C6: a HALF_OPEN breaker stays HALF_OPEN while fewer than
\* success_threshold successes have been recorded since it entered
\* HALF_OPEN, and it becomes CLOSED, with failure_count = 0, on the recorded
\* success that brings that number to success_threshold; CLOSED is entered
\* from HALF_OPEN only.
C6_HalfOpenClosesExactlyAtThreshold ==
    /\ [](state = HALF_OPEN => halfOpenSuccesses < success_threshold)
    /\ [][(state # CLOSED /\ state' = CLOSED) =>
            /\ state = HALF_OPEN
            /\ halfOpenSuccesses' = halfOpenSuccesses + 1
            /\ halfOpenSuccesses' = success_threshold
            /\ failure_count' = 0]_vars
    /\ [][(state = HALF_OPEN /\ halfOpenSuccesses' >= success_threshold) =>
            state' = CLOSED]_vars

\* C6 witness: with success_threshold = 2 the breaker has closed again
\* after two successes recorded in HALF_OPEN.
C6_Witness ==
    /\ success_threshold = 2
    /\ state = CLOSED
    /\ halfOpenSuccesses = 2
    /\ failure_count = 0
    /\ last_failure_time > 0

\* C7: a failure recorded in HALF_OPEN moves the breaker to OPEN in that
\* step, whatever the counts, with last_failure_time the time of that
\* failure; calls made before recovery_timeout has elapsed from it are
\* rejected and leave the breaker OPEN.
C7_HalfOpenFailureReopens ==
    /\ [][\A t \in Threads :
            (RecordFailure(t) /\ state = HALF_OPEN) =>
               /\ state' = OPEN
               /\ last_failure_time' = now]_vars
    /\ [][\A t \in Threads :
            (CallEnter(t) /\ state = OPEN
               /\ now - last_failure_time < recovery_timeout) =>
               /\ state' = OPEN
               /\ pc'[t] = "idle"]_vars

\* C7 witness: the breaker is OPEN again after one success and then a
\* failure were recorded in HALF_OPEN (success_threshold = 2).
C7_Witness ==
    /\ success_threshold = 2
    /\ state = OPEN
    /\ halfOpenSuccesses = 1
    /\ last_failure_time = now
    /\ failure_count > failure_threshold

\* C8: under every interleaving of concurrent call()s the state changes
\* along CLOSED->OPEN, OPEN->HALF_OPEN, HALF_OPEN->CLOSED, HALF_OPEN->OPEN
\* only, each recording step changes failure_count by the one failure it
\* records, and a completed invocation of the wrapped function has been
\* recorded exactly once (not at all while it is still in flight).
C8_AtomicTransitionsRecordedOnce ==
    /\ [][state' # state =>
            <<state, state'>> \in {<<CLOSED, OPEN>>, <<OPEN, HALF_OPEN>>,
                                   <<HALF_OPEN, CLOSED>>, <<HALF_OPEN, OPEN>>}]_vars
    /\ [][\A t \in Threads :
            /\ RecordFailure(t) =>
                 (failure_count' = failure_count + 1 /\ recorded'[t] = 1)
            /\ RecordSuccess(t) =>
                 (failure_count' \in {0, failure_count} /\ recorded'[t] = 1)]_vars
    /\ [](\A t \in Threads :
            /\ outcome[t] \in {"result", "exception"} =>
                 (pc[t] = "idle" /\ recorded[t] = 1)
            /\ pc[t] # "idle" => (outcome[t] = "pending" /\ recorded[t] = 0)
            /\ outcome[t] \in {"none", "CircuitBreakerOpenError"} =>
                 recorded[t] = 0)

\* C8 witness: one thread's invocation completed and was recorded while
\* another thread's invocation, admitted before the breaker opened, is
\* still in flight.
C8_Witness ==
    \E t1, t2 \in Threads :
        /\ t1 # t2
        /\ outcome[t1] = "exception" /\ recorded[t1] = 1
        /\ pc[t2] = "returned"
        /\ state = OPEN

(* -------------------------- with_retry: claims ------------------------- *)

\* C9 (as claimed): if the wrapped function raises retryable exceptions on
\* its first k invocations (k <= max_retries) and succeeds on the next one,
\* with_retry returns its value after exactly k + 1 invocations.
C9_SucceedsAfterKFailures ==
    (/\ rpc = "done"
     /\ fn_failures <= max_retries
     /\ fnRaised \subseteq RetryableExceptions) =>
        /\ raised = Returned
        /\ ncalls = fn_failures + 1

\* C9 (amended): if the wrapped function raises retryable exceptions on its
\* first k invocations (k <= max_retries) and succeeds on the next one,
\* with_retry returns its value after exactly k + 1 invocations and k
\* sleeps, unless timeout_seconds is set and the elapsed time is found to
\* exceed it before one of the retries, in which case with_retry raises
\* TimeoutError (408) after at least one and at most k invocations.
C9_SucceedsUnlessBudgetExceeded ==
    (/\ rpc = "done"
     /\ fn_failures <= max_retries
     /\ fnRaised \subseteq RetryableExceptions) =>
        \/ /\ raised = Returned
           /\ ncalls = fn_failures + 1
           /\ nsleeps = fn_failures
        \/ /\ raised = TimeoutErrorRaised
           /\ timeout_seconds # 0
           /\ ncalls >= 1
           /\ ncalls <= fn_failures

\* C9 witness: max_retries = 3, two retryable failures, then the value is
\* returned by the third invocation.
C9_Witness ==
    /\ rpc = "done"
    /\ max_retries = 3
    /\ fn_failures = 2
    /\ fnRaised # {} /\ fnRaised \subseteq RetryableExceptions
    /\ raised = Returned
    /\ ncalls = 3

\* C10 (as claimed): the wrapped function is never invoked more than
\* max_retries + 1 times, and if it raises a retryable exception on every
\* invocation it is invoked exactly max_retries + 1 times and with_retry
\* then raises an error.
C10_AlwaysExactlyMaxRetriesPlusOne ==
    /\ ncalls <= max_retries + 1
    /\ (/\ rpc = "done"
        /\ fn_failures > max_retries
        /\ fnRaised \subseteq RetryableExceptions) =>
           /\ raised.type \notin {"return", "None"}
           /\ ncalls = max_retries + 1

\* C10 (amended): with_retry always ends after a bounded number of
\* attempts: the wrapped function is never invoked more than
\* max_retries + 1 times, the loop variable never passes max_retries and
\* the wrapper can always take its next step until it has ended; if the
\* function raises a retryable exception on every invocation, with_retry
\* ends by raising an error, after exactly max_retries + 1 invocations and
\* max_retries sleeps unless the timeout budget was found exceeded before
\* an attempt, in which case it raises TimeoutError after at most
\* max_retries invocations.
C10_BoundedAttempts ==
    /\ ncalls <= max_retries + 1
    /\ attempt <= max_retries
    /\ nsleeps <= max_retries
    /\ rpc # "done" => ENABLED RetryNext
    /\ (/\ rpc = "done"
        /\ fn_failures > max_retries
        /\ fnRaised \subseteq RetryableExceptions) =>
           /\ raised.type \notin {"return", "None"}
           /\ raised.type # "TimeoutError" =>
                (ncalls = max_retries + 1 /\ nsleeps = max_retries)
           /\ raised.type = "TimeoutError" =>
                (timeout_seconds # 0 /\ ncalls = attempt
                   /\ ncalls <= max_retries)

\* C10 witness: every invocation raised a retryable exception and the
\* chain ended with an error after max_retries + 1 = 3 invocations.
C10_Witness ==
    /\ rpc = "done"
    /\ max_retries = 2
    /\ fn_failures > max_retries
    /\ fnRaised # {} /\ fnRaised \subseteq RetryableExceptions
    /\ raised.type \notin {"return", "None", "TimeoutError"}
    /\ ncalls = 3

\* C11: once retries are exhausted on retryable exceptions (RetryableError,
\* ClientError or BotoCoreError on every one of the max_retries + 1
\* invocations), the error with_retry raises is an APIError with status 503
\* that carries a retry_after hint, never the raw last exception.
C11_ExhaustionRaises503WithRetryAfter ==
    (/\ rpc = "done"
     /\ ncalls = max_retries + 1
     /\ fnRaised \subseteq RetryableExceptions
     /\ raised.type \notin {"return", "TimeoutError"}) =>
        /\ raised.type = "APIError"
        /\ raised.status_code = 503
        /\ raised.retry_after # 0

\* C12: once the wrapped function has raised an exception that is not
\* retryable, the only step with_retry takes is to re-raise that exception
\* unchanged: it is in the except clause or has ended with that very
\* exception (not the 503 error), no invocation follows, and every sleep
\* taken lies between two invocations (none after the last one).
C12_NonRetryablePropagatesAtOnce ==
    "ValueError" \in fnRaised =>
        /\ rpc \in {"except", "done"}
        /\ rpc = "except" => exc = "ValueError"
        /\ rpc = "done" =>
              (raised = Propagated("ValueError") /\ raised # ExhaustedAPIError)
        /\ nsleeps = ncalls - 1
        /\ attempt = ncalls - 1

\* C12 witness: retryable failures first, then a non-retryable one while
\* retries were still left; it has been re-raised.
C12_Witness ==
    /\ rpc = "done"
    /\ raised = Propagated("ValueError")
    /\ ncalls = 2
    /\ max_retries = 3
    /\ nsleeps = 1

\* C13: when a timeout budget is set and the time elapsed since start_time
\* exceeds it as an attempt is about to start, that step does not invoke the
\* wrapped function and raises TimeoutError; a raised TimeoutError is never
\* retried (the next step ends with_retry with it, without a sleep or an
\* invocation), and what the caller gets is the 408 TimeoutError, distinct
\* from the wrapped failure and from the 503 exhaustion error.
C13_TimeoutAbortsWithoutInvoking ==
    /\ [][(rpc = "attempt" /\ timeout_seconds # 0
             /\ rtime - start_time > timeout_seconds) =>
              (exc' = "TimeoutError" /\ rpc' = "except"
                 /\ ncalls' = ncalls /\ nsleeps' = nsleeps)]_vars
    /\ [][exc = "TimeoutError" =>
              (rpc' = "done" /\ raised' = TimeoutErrorRaised
                 /\ ncalls' = ncalls /\ nsleeps' = nsleeps
                 /\ attempt' = attempt)]_vars
    /\ [](raised.type = "TimeoutError" =>
              /\ raised.status_code = 408
              /\ raised # ExhaustedAPIError
              /\ raised # Propagated(last_exception)
              /\ timeout_seconds # 0
              /\ ncalls <= max_retries)

\* C13 witness: after a retryable failure and its backoff the budget was
\* found exceeded, and with_retry ended with TimeoutError while attempts
\* were still left.
C13_Witness ==
    /\ rpc = "done"
    /\ raised = TimeoutErrorRaised
    /\ last_exception \in RetryableExceptions
    /\ ncalls >= 1
    /\ ncalls <= max_retries

(* ========================== pipeline properties ======================== *)

\* C1: a candidate's status only moves forward along uploaded ->
\* processing -> analyzed or to failed from any status; no step of the
\* upload, worker, completion-notification and structuring handlers
\* (re-delivered ones included) moves it backward, and a failed candidate
\* never returns to a non-failed status.
C1_StatusOnlyMovesForward ==
    [][\A c \in Candidates :
          candidates'[c].status # candidates[c].status =>
             <<candidates[c].status, candidates'[c].status>> \in
                {<<"absent", "uploaded">>, <<"absent", "processing">>,
                 <<"absent", "analyzed">>, <<"absent", "failed">>,
                 <<"uploaded", "processing">>, <<"uploaded", "analyzed">>,
                 <<"uploaded", "failed">>, <<"processing", "analyzed">>,
                 <<"processing", "failed">>, <<"analyzed", "failed">>}]_vars

\* C2: once the completion notification of the same SUCCEEDED job has been
\* delivered two or more times, the candidate has exactly one record in the
\* analyses table.
C2_OneRecordAfterRedelivery ==
    \A c \in Candidates : deliveries[c] >= 2 => Len(analyses[c]) = 1

\* C14: in every handler run in which extraction fails for a candidate
\* (text decode error, download or parse error in the DOCX worker, the
\* worker or the Textract job could not be started, or the Textract job
\* ended FAILED), that candidate's status is failed afterwards and no NLP
\* invocation is sent for it.
C14_ExtractionFailureMarksFailed ==
    [][\A c \in Candidates :
          (lastEvent'.candidate = c
             /\ lastEvent'.outcome = "extraction_failed") =>
             /\ candidates'[c].status = "failed"
             /\ pendingNlp'[c] = pendingNlp[c]]_vars

\* C15: every failed candidate has a classified error stored with it, on
\* its item or on one of its analysis records: an error_type, a user
\* message and the retry_possible flag.
C15_FailedCarriesClassifiedError ==
    \A c \in Candidates :
       candidates[c].status = "failed" =>
          \/ {"error_type", "message", "retry_possible"}
                \subseteq DOMAIN candidates[c]
          \/ \E i \in 1..Len(analyses[c]) :
                {"error_type", "message", "retry_possible"}
                   \subseteq DOMAIN analyses[c][i]

\* C16: an NLP invocation is sent for a candidate only in a run of an
\* extraction handler (upload of a txt file, DOCX worker, Textract result
\* handler) in which none of its service calls raised and which, in that
\* same run, stored a new record holding the extracted text and set the
\* candidate's status to analyzed; a run in which a call raised or the
\* extraction failed sends none.
C16_TriggerOnlyAfterBothWrites ==
    [][\A c \in Candidates :
          /\ pendingNlp'[c] > pendingNlp[c] =>
                /\ lastEvent' \in
                      [handler : {"upload", "docx_worker", "textract_result"},
                       candidate : {c}, outcome : {"ok"}]
                /\ Len(analyses'[c]) = Len(analyses[c]) + 1
                /\ analyses'[c][Len(analyses'[c])].textExtractionStatus
                      = "completed"
                /\ analyses'[c][Len(analyses'[c])].extractedText
                      # "placeholder"
                /\ candidates'[c].status = "analyzed"
                /\ pendingNlp'[c] = pendingNlp[c] + 1
          /\ (lastEvent'.candidate = c /\ lastEvent'.outcome # "ok") =>
                pendingNlp'[c] <= pendingNlp[c]]_vars

\* C16 witness: the Textract result handler has stored the text, marked the
\* candidate analyzed and sent the NLP invocation.
C16_Witness ==
    \E c \in Candidates :
       /\ lastEvent =
             [handler |-> "textract_result", candidate |-> c, outcome |-> "ok"]
       /\ pendingNlp[c] = 1
       /\ candidates[c].status = "analyzed"
       /\ Len(analyses[c]) = 2
       /\ analyses[c][2].extractedText = "text"

\* C17: a candidate's status is analyzed only when the structured fields
\* of the NLP handler are stored on one of its analysis records.
C17_AnalyzedOnlyAfterStructuring ==
    \A c \in Candidates :
       candidates[c].status = "analyzed" =>
          \E i \in 1..Len(analyses[c]) : analyses[c][i].structured

\* C18: a run of the NLP handler that fails (no record, no text, a call
\* raises, or the structured fields are not written) leaves the candidate
\* failed.
C18_StructuringFailureMarksFailed ==
    [][\A c \in Candidates :
          lastEvent' = [handler |-> "nlp", candidate |-> c,
                        outcome |-> "structuring_failed"] =>
             candidates'[c].status = "failed"]_vars

\* C19: a run of the NLP handler, whatever its outcome, leaves every
\* candidate's number of analysis records unchanged and the extractedText
\* and textExtractionStatus of every record unchanged.
C19_StructuringKeepsRecordsAndText ==
    [][lastEvent'.handler = "nlp" =>
          \A c \in Candidates :
             /\ Len(analyses'[c]) = Len(analyses[c])
             /\ \A i \in 1..Len(analyses[c]) :
                   /\ analyses'[c][i].extractedText
                         = analyses[c][i].extractedText
                   /\ analyses'[c][i].textExtractionStatus
                         = analyses[c][i].textExtractionStatus]_vars

\* C19 witness: the NLP handler has written the structured fields on a
\* record whose extracted text is still there.
C19_Witness ==
    \E c \in Candidates :
       /\ lastEvent = [handler |-> "nlp", candidate |-> c, outcome |-> "ok"]
       /\ \E i \in 1..Len(analyses[c]) :
             /\ analyses[c][i].structured
             /\ analyses[c][i].extractedText = "text"

\* C20: in every reachable state each candidate has at most one analysis
\* record.
C20_AtMostOneRecord ==
    \A c \in Candidates : Len(analyses[c]) <= 1

\* C21: a run of the Textract result handler on a SUCCEEDED job whose text
\* is empty, for a candidate it finds by job id and with no call raising,
\* leaves the candidate failed (not analyzed) and sends no NLP invocation.
C21_EmptyTextIsFailure ==
    [][\A c \in Candidates :
          (/\ lastEvent' = [handler |-> "textract_result", candidate |-> c,
                            outcome |-> "ok"]
           /\ jobs[c] = "SUCCEEDED"
           /\ jobText[c] = ""
           /\ candidates[c].textractJobId = c) =>
             /\ candidates'[c].status = "failed"
             /\ pendingNlp'[c] = pendingNlp[c]]_vars

C23_FailedOnlyAfterRetries ==
    \A c \in Candidates :
       (/\ lastEvent.handler = "upload"
        /\ lastEvent.candidate = c
        /\ lastEvent.outcome \in {"extraction_failed", "raised"}
        /\ candidates[c].fileType = "pdf"
        /\ candidates[c].status = "failed") =>
           /\ rpc = "done"
           /\ \/ ncalls = max_retries + 1
              \/ ~(fnRaised \subseteq RetryableExceptions)

\* C24: no run of a handler ends with the handler raising to its invoker.
C24_FailureNeverEscapes ==
    lastEvent.outcome # "escaped"

(* ===================== text_extraction_errors: claims ================== *)

\* C25: for every message that contains "timeout" and contains "textract"
\* or "job" (in any letter case, whatever else it contains),
\* classify_error returns TEXTRACT_TIMEOUT.
C25_JobTimeoutAlwaysClassified ==
    (/\ cpc = "classify_error"
     /\ Contains(error_message, "timeout")
     /\ Contains(error_message, "textract") \/ Contains(error_message, "job"))
       => classified = "TEXTRACT_TIMEOUT"

\* C26: ERROR_MESSAGES has an entry for each of the 13 kinds and no two
\* entries are equal; whatever the message and the job response, the error
\* built by create_error or handle_textract_error has a kind of the set
\* and carries the user message, retry_possible flag and suggested_action
\* of that very kind's entry.
C26_PolicyMappingTotal ==
    /\ DOMAIN ERROR_MESSAGES = TextExtractionErrorType
    /\ Cardinality(TextExtractionErrorType) = 13
    /\ \A k1, k2 \in TextExtractionErrorType :
          k1 # k2 =>
             /\ ERROR_MESSAGES[k1].user_message # ERROR_MESSAGES[k2].user_message
             /\ ERROR_MESSAGES[k1].suggested_action
                   # ERROR_MESSAGES[k2].suggested_action
    /\ cpc \in {"create_error", "handle_textract_error"} =>
          /\ error.error_type \in TextExtractionErrorType
          /\ error.message = ERROR_MESSAGES[error.error_type].user_message
          /\ error.retry_possible
                = ERROR_MESSAGES[error.error_type].retry_possible
          /\ error.suggested_action
                = ERROR_MESSAGES[error.error_type].suggested_action
          /\ error.retry_possible \in BOOLEAN
          /\ error.suggested_action # ""

\* C26 witness: create_error on a message naming a corrupt document has
\* built a DOCUMENT_CORRUPTED error that cannot be retried.
C26_Witness ==
    /\ cpc = "create_error"
    /\ Contains(error_message, "corrupt")
    /\ error.error_type = "DOCUMENT_CORRUPTED"
    /\ error.retry_possible = FALSE

(* ========================= matches_handler: claims ===================== *)

\* the skills stored on the candidate's analysis item
C27_StoredSkills ==
    IF analysesTable = <<>> THEN {}
    ELSE IF analysesTable[1].hasNlpResults
         THEN analysesTable[1].nlpResults.skills
         ELSE analysesTable[1].skills

\* the stored overall score, 50 when absent
C27_StoredScoreOr50 ==
    IF analysesTable = <<>> THEN 50
    ELSE IF analysesTable[1].hasNlpResults
         THEN (IF analysesTable[1].nlpResults.hasOverallScore
               THEN analysesTable[1].nlpResults.overallScore ELSE 50)
         ELSE (IF analysesTable[1].hasOverallScore
               THEN analysesTable[1].overallScore ELSE 50)

\* score (in hundredths) is round(100 * m / t * 0.6 + e * 0.4, 2) for the
\* job skills required and the candidate skills cand
C27_IsWeightedScore(score, cand, required, e) ==
    LET t == Len(required)
        m == Cardinality({i \in 1..t :
                \E c \in cand :
                   \/ InSkill(LowerSkill(c), LowerSkill(required[i]))
                   \/ InSkill(LowerSkill(required[i]), LowerSkill(c))})
    IN  /\ score \in 0..10000
        /\ IF t = 0 THEN score = 40 * e
           ELSE LET d == score * t - (6000 * m + 40 * e * t)
                IN  2 * d <= t /\ 2 * d >= -t

C30_PositiveScoresSortedStably ==
    response.source = "generated" =>
        LET ms == response.matches
            score(j) == calculate_match_score(analysesTable, jobsTable, j)
        IN  /\ {ms[i].jobId : i \in 1..Len(ms)}
                 = {j \in 1..Len(jobsTable) : score(j) > 0}
            /\ \A i \in 1..Len(ms) : ms[i].matchScore = score(ms[i].jobId)
            /\ \A i, k \in 1..Len(ms) :
                  i < k =>
                     \/ ms[i].matchScore > ms[k].matchScore
                     \/ /\ ms[i].matchScore = ms[k].matchScore
                        /\ ms[i].jobId < ms[k].jobId

\* C30 witness: of three jobs the one with score 0 is left out, and the
\* two others, of equal score, are listed in scan order.
C30_Witness ==
    /\ response.source = "generated"
    /\ Len(jobsTable) = 3
    /\ Len(response.matches) = 2
    /\ response.matches[1].matchScore = response.matches[2].matchScore
    /\ response.matches[1].jobId < response.matches[2].jobId

\* the scores of the last response equal those computed from the tables
C31_ResponseIsCurrent ==
    /\ response.source = "stored" =>
          \A m \in response.items :
              m.score = calculate_match_score(analysesTable, jobsTable, m.jobId)
    /\ response.source = "generated" =>
          \A i \in 1..Len(response.matches) :
              response.matches[i].matchScore
                 = calculate_match_score(analysesTable, jobsTable,
                                         response.matches[i].jobId)

\* C31: every score that get_matches returns for the candidate equals, at
\* the moment it is returned, the score recomputed from the candidate's
\* analysis item and the job as they are then, also when the match was
\* stored before the job was updated.
C31_ReturnedScoreIsRecomputed ==
    [][(GetStoredMatches \/ GenerateMatches) => C31_ResponseIsCurrent']_vars

(* ================== nlp_handler, structured data: claims =============== *)

\* C32: whatever the file type, the overallScore of a derived profile
\* equals min(100, min(2*|skills|, 40) + tier(totalYears) + education +
\* role) computed from that profile's fields and lies in [0,100]; 3 skills,
\* 5 years, no degree or university and a known role give 46.
C32_OverallScoreFollowsFormula ==
    (spc = "extracted" /\ extracted_data.present) =>
        LET d == extracted_data
            capped == IF 2 * d.skills <= 40 THEN 2 * d.skills ELSE 40
            tier == IF d.totalYears >= 5 THEN 30
                    ELSE IF d.totalYears >= 3 THEN 20
                    ELSE IF d.totalYears >= 1 THEN 10 ELSE 0
            education == IF d.degree THEN 20
                         ELSE IF d.university THEN 10 ELSE 0
            role == IF d.currentRole THEN 10 ELSE 0
            sum == capped + tier + education + role
        IN  /\ d.overallScore = (IF sum <= 100 THEN sum ELSE 100)
            /\ d.overallScore \in 0..100
            /\ (d.skills = 3 /\ d.totalYears = 5 /\ ~d.degree
                /\ ~d.university /\ d.currentRole) => d.overallScore = 46

(* =================== upload_handler, validation: claims ================ *)

\* C33: an upload whose fileType is outside {pdf, docx, doc, txt} or whose
\* payload is larger than 10 MiB is answered 400 and has no effect: no
\* object is stored, no candidate item is created and no extraction is
\* started (so no analysis item and no stage trigger); no other upload is
\* answered 400, and one of exactly 10 MiB with a supported type is
\* accepted.
C33_InvalidUploadRejectedWithoutEffect ==
    upload_response # 0 =>
        LET invalid ==
                \/ request.fileType \notin {"pdf", "docx", "doc", "txt"}
                \/ request.size > 10485760
        IN  /\ invalid <=> upload_response = 400
            /\ invalid =>
                  s3_objects = 0 /\ candidate_items = 0 /\ ~processing
            /\ (request.size = 10485760
                /\ request.fileType \in {"pdf", "docx", "doc", "txt"})
                  => upload_response # 400

\* C33 witness: a pdf of exactly 10 MiB has been accepted, stored and its
\* extraction started.
C33_Witness ==
    /\ request = [fileType |-> "pdf", size |-> 10485760]
    /\ upload_response = 200
    /\ s3_objects = 1
    /\ candidate_items = 1
    /\ processing

(* ------------------ CircuitBreaker: concurrent callers ----------------- *)

\* C34: while a call admitted in HALF_OPEN is in flight (its outcome not
\* yet recorded), no second call admitted in HALF_OPEN is in flight: no two
\* threads have calls in flight that were both admitted in HALF_OPEN.
C34_OneTrialAtATime ==
    \A t, u \in Threads :
        (t # u /\ admittedIn[t] = HALF_OPEN) => admittedIn[u] # HALF_OPEN

\* C38: a recorded success that moves the breaker from HALF_OPEN to CLOSED
\* is the success of a call that was admitted in HALF_OPEN, and the
\* recorded success of a call admitted in CLOSED leaves success_count as
\* it was.
C38_OnlyTrialCallsClose ==
    [][\A t \in Threads :
          (pc[t] = "returned" /\ pc'[t] = "idle" /\ admittedIn[t] = CLOSED) =>
             /\ success_count' = success_count
             /\ ~(state = HALF_OPEN /\ state' = CLOSED)]_vars

(* ================ text_extraction_errors: precedence =================== *)

\* the keyword groups in the order the claim gives, each with the kinds it
\* can yield
C35_Groups ==
    << [keywords |-> {"textract"},
        kinds |-> {"TEXTRACT_INVALID_JOB", "TEXTRACT_TIMEOUT",
                   "TEXTRACT_JOB_FAILED", "TEXTRACT_SERVICE_ERROR"}],
       [keywords |-> {"corrupt", "damaged", "invalid format"},
        kinds |-> {"DOCUMENT_CORRUPTED"}],
       [keywords |-> {"password", "encrypted", "protected"},
        kinds |-> {"DOCUMENT_ENCRYPTED"}],
       [keywords |-> {"too large", "size limit", "file size"},
        kinds |-> {"DOCUMENT_TOO_LARGE"}],
       [keywords |-> {"unsupported", "format not supported"},
        kinds |-> {"UNSUPPORTED_FORMAT"}],
       [keywords |-> {"empty", "no text"}, kinds |-> {"EMPTY_DOCUMENT"}],
       [keywords |-> {"network", "connection", "timeout"},
        kinds |-> {"NETWORK_ERROR", "PROCESSING_TIMEOUT"}],
       [keywords |-> {"permission", "access denied", "forbidden"},
        kinds |-> {"PERMISSION_DENIED"}] >>

\* the groups a message matches
C35_Matching ==
    {g \in 1..Len(C35_Groups) :
        ContainsAny(error_message, C35_Groups[g].keywords)}

\* C35: classify_error returns a kind of the first keyword group, in the
\* order Textract, corrupted, encrypted, too large, unsupported, empty,
\* network/timeout, permission, that the message matches, whatever later
\* groups it also matches; a message that matches no group, and the empty
\* message, yield UNKNOWN_ERROR.
C35_FirstMatchingGroupWins ==
    cpc = "classify_error" =>
        IF C35_Matching = {} THEN classified = "UNKNOWN_ERROR"
        ELSE \E g \in C35_Matching :
                /\ \A h \in C35_Matching : g <= h
                /\ classified \in C35_Groups[g].kinds

\* C35 witness: a message that names both a password and a dropped
\* connection has been classified DOCUMENT_ENCRYPTED.
C35_Witness ==
    /\ cpc = "classify_error"
    /\ Contains(error_message, "password")
    /\ Contains(error_message, "connection")
    /\ classified = "DOCUMENT_ENCRYPTED"

\* C40: for every error kind, fallbackOptions.allow_retry of the
\* API-formatted error equals its retryPossible flag, which is the flag of
\* the kind in ERROR_MESSAGES.
C40_AllowRetryEqualsRetryPossible ==
    cpc = "format_error_for_api" =>
        /\ api_error.retryPossible = ERROR_MESSAGES[api_error.type].retry_possible
        /\ api_error.fallbackOptions.allow_retry = api_error.retryPossible

(* ===================== pipeline: repeated deliveries =================== *)

C39_AcceptedUploadReachesTerminalStatus ==
    \A c \in Candidates :
        (/\ uploadPc[c] = "200"
         /\ candidates[c].status \in {"uploaded", "processing"})
            ~> (candidates[c].status \in {"analyzed", "failed"})

====
